---- MODULE Spec2Model ----
(***************************************************************************)
(* Model of the depriv-bot trading scripts.                                *)
(*                                                                         *)
(*  - the strict multi-timeframe backtester  (src/index.js 225-425)        *)
(*  - the live engine                        (src/unnamed/part_001 54-356) *)
(*                                                                         *)
(* Prices live on an integer tick grid.  Money is fixed point: where the   *)
(* scripts divide float64 values (risk per trade, quantity) the model      *)
(* divides integers and truncates.  The indicator library                  *)
(* (technicalindicators) is not part of the repository: the Bollinger band *)
(* and EMA values it returns are inputs of the model.                      *)
(***************************************************************************)
EXTENDS Integers, Sequences, FiniteSets, TLC

\* ------------------------------------------------------------- bounds
MaxBars == 4        \* 5M candles replayed by the backtester
MaxNew == 3         \* live: ohlc messages that open a new candle
BufCap == 4         \* live: candles a buffer keeps (1000 in the script)
HistCount == 3      \* live: candles of a history response (the script asks for 120)
BasePrice == 10000  \* lowest price of the grid
BB_PERIOD == 1      \* live: process.env.BB_PERIOD (20 when unset)
HTF_EMA == 1        \* live: process.env.HTF_EMA (50 when unset)
MaxRows == 6        \* structure scripts: candles in the CSV file
SWING_SIZE == 1     \* structure scripts: bars left/right that confirm a swing (3 in the scripts)
MaxLTF == 5         \* 15M backtester: candles in the CSV file
MaxFind == 4        \* lookup: candles in the array searched
ATR_PERIOD == 1     \* 15M backtester: period of the ATR (14 in the script; its BB_PERIOD is 20)

\* ------------------------------------------------------------- program constants
INITIAL_EQUITY == 10000
MAX_TRADES_PER_DAY == 2
RISK_PCT_DIV == 100      \* RISK_PCT = 0.01: x * RISK_PCT is x \div 100
RR_TARGET == 2
LOSS_LIMIT == 2          \* the literal 2 in "consecLosses >= 2"
DAY_SECONDS == 86400     \* new Date(e * 1000): one UTC day
GRAN_5M == 300           \* granularity of the 5M series
MAX_TRADES_PER_SESSION == 2
LOSS_PAUSE_AFTER == 2
EPS_DIV == 10000         \* Math.abs(entry) * 0.0001 is entry \div 10000
MIN_IMPULSE_CANDLES == 2
MIN_LEG_PTS == 0
START_BALANCE == 10000
RISK_REWARD_CONT == 2
SCAN_END == 51           \* the exit scan stops before candle i + 51
GRAN_15M == 900
HOUR_SECONDS == 3600

PriceLo == BasePrice
PriceMid == BasePrice + 1
PriceHi == BasePrice + 2
Prices == {PriceLo, PriceMid, PriceHi}

NoCandle == [epoch |-> -1]
NoBB == [middle |-> -1]
NoEMA == 0
NoPos == [side |-> "NONE"]
NoSig == [module |-> "NONE"]
NoCall == [chunkCount |-> 0]
NoRequest == [granularity |-> 0]
NoDay == -1
NoExit == [reason |-> "NONE"]

Max(a, b) == IF a >= b THEN a ELSE b
Min(a, b) == IF a <= b THEN a ELSE b
Abs(a) == IF a >= 0 THEN a ELSE -a

VARIABLES
    prog,             \* which script runs
    pc,               \* strict: "loop" | "force" | "done"
    i,                \* strict: number of 5M candles already replayed
    c5,               \* strict: candles5m[i-1], the candle of the last iteration
    c2h, p2h,         \* strict: latest 2H candle at or before the epoch, and the body of the one before it
    c1h, p1h,         \* strict: the same for the 1H series
    account, position, trades, dailyTrades, lastTradeDay, consecLosses,
    executedSignals,
    nEnter, nExit,    \* ENTER and EXIT / FORCE CLOSE lines written to the console
    ws,               \* live: "connecting" | "open" | "authorized" | "closed"
    candles,          \* live: the buffer of each timeframe
    subRefToTF,       \* live: timeframes whose subscription id is known
    nNew,             \* live: ohlc messages so far that opened a new candle
    accountBalance, tradesThisSession, consecutiveLosses, pausedForSession,
    spc,              \* structure scripts: "load" | "swings" | "bos" | "done"
    rows,             \* structure scripts: the candles read from the CSV file so far
    swings,           \* structure scripts: the pivots detectSwings / detectRawSwings returned
    si,               \* structure scripts: pivots detectBOSFromSwings has gone through
    lastHighSeen, lastLowSeen, currentTrend, events,
    lpc,              \* 15M backtester: "loop" | "done"
    candlesLTF,       \* 15M backtester: the candles of the CSV file
    iLTF,             \* 15M backtester: the loop index i
    balance, tradesLTF,
    fpc,              \* lookup: "call" | "done"
    fArr, fEpoch,     \* lookup: the arguments of findLatestAtOrBefore
    fAns,             \* lookup: the value it returned
    sock,             \* downloader: "connecting" | "open" | "closed"
    currentTFIndex,   \* downloader: index of the timeframe being downloaded
    dl,               \* downloader: "connecting" | "listening" | "timer" | "closed"
    call,             \* downloader: arguments of the fetchNextChunk call the listener or timer holds
    delay,            \* downloader: milliseconds of the pending setTimeout
    request,          \* downloader: the request sent last
    files             \* downloader: the rows appended to each CSV file

strictVars == <<pc, i, c5, c2h, p2h, c1h, p1h, account, trades,
                dailyTrades, lastTradeDay, consecLosses, executedSignals>>
liveVars == <<ws, candles, subRefToTF, nNew, accountBalance, tradesThisSession,
              consecutiveLosses, pausedForSession>>
structVars == <<spc, rows, swings, si, lastHighSeen, lastLowSeen, currentTrend, events>>
ltfVars == <<lpc, candlesLTF, iLTF, balance, tradesLTF>>
findVars == <<fpc, fArr, fEpoch, fAns>>
fetchVars == <<sock, currentTFIndex, dl, call, delay, request, files>>
otherVars == <<structVars, ltfVars, findVars, fetchVars>>
vars == <<prog, position, nEnter, nExit, strictVars, liveVars, otherVars>>

\* ------------------------------------------------------------- helpers
\* getYYYYMMDD: the UTC calendar date of an epoch (the day number names it)
getYYYYMMDD(e) == e \div DAY_SECONDS

\* epochToISO: UTC date and time of day, to the second
epochToISO(e) == <<e \div DAY_SECONDS, e % DAY_SECONDS>>

\* A bullish engulfing without the body test: directions only.
isBullishEngulfLoose(curr, prev) ==
    /\ curr.close > curr.open
    /\ prev.close < prev.open

isBullishEngulf(curr, prev) ==
    /\ curr.close > curr.open
    /\ prev.close < prev.open
    /\ curr.close >= prev.open
    /\ curr.open <= prev.close

isBearishEngulf(curr, prev) ==
    /\ curr.close < curr.open
    /\ prev.close > prev.open
    /\ curr.open >= prev.close
    /\ curr.close <= prev.open

\* ------------------------------------------------------------- inputs
\* A candle of the feed: open and close on the grid, high and low the body's ends.
Candle(e, o, c) ==
    [epoch |-> e, open |-> o, high |-> Max(o, c), low |-> Min(o, c), close |-> c]

\* Open/close pairs of the 5M candles: one tick long, inside the price range of the
\* HTF candles, and one bearish candle that closes above that range (the HTF candle
\* found at or before a 5M candle need not contain it when the HTF series has a gap).
UnitBodies == { b \in Prices \X Prices : Abs(b[1] - b[2]) = 1 }
Bodies5 == UnitBodies \cup { <<PriceHi + 2, PriceHi + 1>> }

\* Open/close pairs of the HTF candles.
BodiesHTF == { <<PriceLo, PriceHi>>, <<PriceHi, PriceLo>> }

\* Bollinger bands the library returns for an HTF candle (here of zero width).
Bands == { [upper |-> m, middle |-> m, lower |-> m] : m \in {PriceLo, PriceHi} }

\* EMA values the library returns for an HTF candle.
EMAs == { PriceMid }

\* The fields of the candle before the chosen one that detectHTFSignal reads.
Body(c) == IF c = NoCandle THEN NoCandle ELSE [open |-> c.open, close |-> c.close]

\* An HTF candle with the map entries buildIndicatorMaps keeps for its epoch.
HTFCandle(e, o, c, bb, ema) ==
    [epoch |-> e, open |-> o, high |-> Max(o, c), low |-> Min(o, c), close |-> c,
     bb |-> bb, ema |-> ema]

\* Indicator entries of the candle that follows `prev`: bbMap and emaMap are filled
\* from an index on, so a series has candles without entries and then candles with
\* them (the inputs leave out the candles that have bands and no EMA yet).
IndicatorInputs(prev) ==
    LET hadBB == prev # NoCandle /\ prev.bb # NoBB
        hadEMA == prev # NoCandle /\ prev.ema # NoEMA
    IN  { x \in (Bands \cup {NoBB}) \X (EMAs \cup {NoEMA}) :
            /\ hadBB => x[1] # NoBB
            /\ hadEMA => x[2] # NoEMA
            /\ (x[2] # NoEMA) <=> (x[1] # NoBB) }

\* ------------------------------------------------------------- strict backtester
\* The mutable state of the script, as one value.
State ==
    [account |-> account, position |-> position, trades |-> trades,
     dailyTrades |-> dailyTrades, lastTradeDay |-> lastTradeDay,
     consecLosses |-> consecLosses, executedSignals |-> executedSignals,
     nEnter |-> nEnter, nExit |-> nExit]

\* The risk of a trade taken from the starting equity instead of the current one.
riskPerTradeOfStart(acct) == INITIAL_EQUITY \div RISK_PCT_DIV

\* const riskPerTrade = account * RISK_PCT;
riskPerTradeOf(acct) == acct \div RISK_PCT_DIV

\* detectHTFSignal with the Continuation tests ahead of the Mean Reversion tests.
detectHTFSignalContFirst(a2h, b2h, a1h, b1h) ==
    LET chosen == IF a2h # NoCandle /\ a2h.bb # NoBB
                      THEN [candle |-> a2h, prev |-> b2h, tfName |-> "2H"]
                  ELSE IF a1h # NoCandle /\ a1h.bb # NoBB
                      THEN [candle |-> a1h, prev |-> b1h, tfName |-> "1H"]
                  ELSE [candle |-> NoCandle, prev |-> NoCandle, tfName |-> "NONE"]
    IN  IF chosen.candle = NoCandle THEN NoSig
        ELSE IF chosen.prev = NoCandle THEN NoSig          \* idx <= 0
        ELSE LET cur == chosen.candle
                 bb == cur.bb
                 ema == cur.ema
                 overbought == cur.close >= bb.upper
                 oversold == cur.close <= bb.lower
                 bullEng == isBullishEngulf(cur, chosen.prev)
                 bearEng == isBearishEngulf(cur, chosen.prev)
                 sig(m, b) == [module |-> m, bias |-> b, htfCandle |-> cur, bb |-> bb,
                               ema |-> ema, tfName |-> chosen.tfName]
             IN  IF ema = NoEMA THEN NoSig                 \* !bb || !ema
                 ELSE IF bullEng /\ cur.close > ema THEN sig("CONT", "LONG")
                 ELSE IF bearEng /\ cur.close < ema THEN sig("CONT", "SHORT")
                 ELSE IF overbought /\ bearEng THEN sig("MR", "SHORT")
                 ELSE IF oversold /\ bullEng THEN sig("MR", "LONG")
                 ELSE NoSig

\* detectHTFSignal(epoch): a2h, b2h are findLatestAtOrBefore(candles2h, epoch) and the
\* candle before it in the array; a1h, b1h the same for candles1h.
detectHTFSignal(a2h, b2h, a1h, b1h) ==
    LET chosen == IF a2h # NoCandle /\ a2h.bb # NoBB
                      THEN [candle |-> a2h, prev |-> b2h, tfName |-> "2H"]
                  ELSE IF a1h # NoCandle /\ a1h.bb # NoBB
                      THEN [candle |-> a1h, prev |-> b1h, tfName |-> "1H"]
                  ELSE [candle |-> NoCandle, prev |-> NoCandle, tfName |-> "NONE"]
    IN  IF chosen.candle = NoCandle THEN NoSig
        ELSE IF chosen.prev = NoCandle THEN NoSig          \* idx <= 0
        ELSE LET cur == chosen.candle
                 bb == cur.bb
                 ema == cur.ema
                 overbought == cur.close >= bb.upper
                 oversold == cur.close <= bb.lower
                 bullEng == isBullishEngulf(cur, chosen.prev)
                 bearEng == isBearishEngulf(cur, chosen.prev)
                 sig(m, b) == [module |-> m, bias |-> b, htfCandle |-> cur, bb |-> bb,
                               ema |-> ema, tfName |-> chosen.tfName]
             IN  IF ema = NoEMA THEN NoSig                 \* !bb || !ema
                 ELSE IF overbought /\ bearEng THEN sig("MR", "SHORT")
                 ELSE IF oversold /\ bullEng THEN sig("MR", "LONG")
                 ELSE IF bullEng /\ cur.close > ema THEN sig("CONT", "LONG")
                 ELSE IF bearEng /\ cur.close < ema THEN sig("CONT", "SHORT")
                 ELSE NoSig

\* if (position) return;
positionGuard(s) == s.position # NoPos

\* The daily cap alone, without the loss limit.
riskBlockedCapOnly(s) == s.dailyTrades >= MAX_TRADES_PER_DAY

\* The loss limit alone, without the daily cap.
riskBlockedLossOnly(s) == s.consecLosses >= LOSS_LIMIT

\* if (dailyTrades >= MAX_TRADES_PER_DAY || consecLosses >= 2) return;
riskBlocked(s) == s.dailyTrades >= MAX_TRADES_PER_DAY \/ s.consecLosses >= LOSS_LIMIT

\* A sizing rejection that counts the attempt as a trade of the day.
rejectSizingCounted(s) == [s EXCEPT !.dailyTrades = @ + 1]

\* if (riskPerUnit <= 0) return;  if (!isFinite(qty) || qty <= 0) return;
rejectSizing(s) == s

\* A key test that looks at the open and closed trades instead of the set of keys.
signalExecutedByTrade(s, sigKey) ==
    \E k \in 1..Len(s.trades) :
        <<s.trades[k].htfRef.tf, s.trades[k].htfRef.epoch, s.trades[k].side>> = sigKey

\* if (executedSignals.has(sigKey)) return;
signalExecuted(s, sigKey) == sigKey \in s.executedSignals

\* tryEnterTrade(epoch): bar is findLatestAtOrBefore(candles5m, epoch), idx5 its index.
tryEnterTrade(s, epoch, bar, idx5, a2h, b2h, a1h, b1h) ==
    IF positionGuard(s) THEN s
    ELSE
    LET today == getYYYYMMDD(epoch)
        s1 == IF s.lastTradeDay # today
                  THEN [s EXCEPT !.dailyTrades = 0, !.lastTradeDay = today]
                  ELSE s
        htfSig == detectHTFSignal(a2h, b2h, a1h, b1h)
    IN  IF riskBlocked(s1) THEN s1
        ELSE IF htfSig = NoSig THEN s1
        ELSE IF bar = NoCandle THEN s1
        ELSE IF idx5 <= 0 THEN s1
        ELSE
        LET etfBias == IF htfSig.bias = "LONG"
                           THEN (IF bar.close > bar.open THEN "LONG" ELSE "NONE")
                           ELSE (IF bar.close < bar.open THEN "SHORT" ELSE "NONE")
            sigKey == <<htfSig.tfName, htfSig.htfCandle.epoch, htfSig.bias>>
        IN  IF etfBias = "NONE" \/ etfBias # htfSig.bias THEN s1
            ELSE IF signalExecuted(s1, sigKey) THEN s1
            ELSE
            LET s2 == [s1 EXCEPT !.executedSignals = @ \cup {sigKey}]
                entry == bar.close
                H == htfSig.htfCandle.high
                L == htfSig.htfCandle.low
                stop == IF htfSig.bias = "LONG" THEN L ELSE H
                target == IF htfSig.module = "MR" THEN htfSig.bb.middle
                          ELSE IF htfSig.bias = "LONG"
                              THEN entry + RR_TARGET * (entry - L)
                              ELSE entry - RR_TARGET * (H - entry)
                riskPerTrade == riskPerTradeOf(s2.account)
                riskPerUnit == Abs(entry - stop)
            IN  IF riskPerUnit <= 0 THEN rejectSizing(s2)
                ELSE
                LET qty == riskPerTrade \div riskPerUnit
                IN  IF qty <= 0 THEN rejectSizing(s2)
                    ELSE [s2 EXCEPT
                            !.position = [side |-> htfSig.bias, entry |-> entry,
                                          stop |-> stop, target |-> target, qty |-> qty,
                                          module |-> htfSig.module,
                                          htfRef |-> [tf |-> htfSig.tfName,
                                                      epoch |-> htfSig.htfCandle.epoch],
                                          timeEnter |-> epochToISO(epoch)],
                            !.dailyTrades = @ + 1,
                            !.nEnter = @ + 1]

\* The price managePosition compares with stop and target.
managedPrice(bar) == bar.close

\* The two tests of managePosition in the other order: target first.
exitOfTargetFirst(p, px) ==
    IF p.side = "LONG"
        THEN IF px >= p.target THEN [price |-> p.target, reason |-> "TARGET"]
             ELSE IF px <= p.stop THEN [price |-> p.stop, reason |-> "STOP"]
             ELSE NoExit
        ELSE IF px <= p.target THEN [price |-> p.target, reason |-> "TARGET"]
             ELSE IF px >= p.stop THEN [price |-> p.stop, reason |-> "STOP"]
             ELSE NoExit

\* The exit managePosition decides for position p at price px.
exitOf(p, px) ==
    IF p.side = "LONG"
        THEN IF px <= p.stop THEN [price |-> p.stop, reason |-> "STOP"]
             ELSE IF px >= p.target THEN [price |-> p.target, reason |-> "TARGET"]
             ELSE NoExit
        ELSE IF px >= p.stop THEN [price |-> p.stop, reason |-> "STOP"]
             ELSE IF px <= p.target THEN [price |-> p.target, reason |-> "TARGET"]
             ELSE NoExit

\* A ledger record: {...position, exit, reason, pnl, timeExit}
TradeRecord(p, exitPx, reason, pnl, timeExit) ==
    [side |-> p.side, entry |-> p.entry, stop |-> p.stop, target |-> p.target,
     qty |-> p.qty, module |-> p.module, htfRef |-> p.htfRef, timeEnter |-> p.timeEnter,
     exit |-> exitPx, reason |-> reason, pnl |-> pnl, timeExit |-> timeExit]

\* The "if (exit)" block with the account left as it was.
closeTradeUnbooked(s, exit, epoch) ==
    LET p == s.position
        pnl == IF p.side = "LONG" THEN exit.price - p.entry ELSE p.entry - exit.price
        tradePnL == pnl * p.qty
    IN  [s EXCEPT
            !.trades = Append(@, TradeRecord(p, exit.price, exit.reason, tradePnL,
                                             epochToISO(epoch))),
            !.nExit = @ + 1,
            !.consecLosses = IF tradePnL < 0 THEN @ + 1 ELSE 0,
            !.position = NoPos]

\* The "if (exit)" block of managePosition.
closeTrade(s, exit, epoch) ==
    LET p == s.position
        pnl == IF p.side = "LONG" THEN exit.price - p.entry ELSE p.entry - exit.price
        tradePnL == pnl * p.qty
    IN  [s EXCEPT
            !.account = @ + tradePnL,
            !.trades = Append(@, TradeRecord(p, exit.price, exit.reason, tradePnL,
                                             epochToISO(epoch))),
            !.nExit = @ + 1,
            !.consecLosses = IF tradePnL < 0 THEN @ + 1 ELSE 0,
            !.position = NoPos]

\* managePosition(epoch): bar is findLatestAtOrBefore(candles5m, epoch).
managePosition(s, epoch, bar) ==
    IF s.position = NoPos THEN s
    ELSE IF bar = NoCandle THEN s
    ELSE
    LET exit == exitOf(s.position, managedPrice(bar))
    IN  IF exit = NoExit THEN s ELSE closeTrade(s, exit, epoch)

\* The two calls of an iteration in the other order: enter, then manage.
loopBodyEnterFirst(s, bar, idx5, a2h, b2h, a1h, b1h) ==
    LET s1 == IF s.position = NoPos
                  THEN tryEnterTrade(s, bar.epoch, bar, idx5, a2h, b2h, a1h, b1h)
                  ELSE s
    IN  managePosition(s1, bar.epoch, bar)

\* One iteration of the backtest loop on the candle `bar` at index idx5.
loopBody(s, bar, idx5, a2h, b2h, a1h, b1h) ==
    LET s1 == managePosition(s, bar.epoch, bar)
    IN  IF s1.position = NoPos
            THEN tryEnterTrade(s1, bar.epoch, bar, idx5, a2h, b2h, a1h, b1h)
            ELSE s1

\* A force close that books the position at its stop instead of the last close.
forceCloseAtStop(s, lastBar) ==
    IF s.position = NoPos THEN s
    ELSE
    LET p == s.position
        lastPx == p.stop
        pnl == IF p.side = "LONG" THEN lastPx - p.entry ELSE p.entry - lastPx
        tradePnL == pnl * p.qty
    IN  [s EXCEPT
            !.account = @ + tradePnL,
            !.trades = Append(@, TradeRecord(p, lastPx, "FORCE_CLOSE_END", tradePnL,
                                             epochToISO(lastBar.epoch))),
            !.nExit = @ + 1]

\* The force close after the loop: lastBar is candles5m[candles5m.length - 1].
forceClose(s, lastBar) ==
    IF s.position = NoPos THEN s
    ELSE
    LET p == s.position
        lastPx == lastBar.close
        pnl == IF p.side = "LONG" THEN lastPx - p.entry ELSE p.entry - lastPx
        tradePnL == pnl * p.qty
    IN  [s EXCEPT
            !.account = @ + tradePnL,
            !.trades = Append(@, TradeRecord(p, lastPx, "FORCE_CLOSE_END", tradePnL,
                                             epochToISO(lastBar.epoch))),
            !.nExit = @ + 1]

Store(s) ==
    /\ account' = s.account
    /\ position' = s.position
    /\ trades' = s.trades
    /\ dailyTrades' = s.dailyTrades
    /\ lastTradeDay' = s.lastTradeDay
    /\ consecLosses' = s.consecLosses
    /\ executedSignals' = s.executedSignals
    /\ nEnter' = s.nEnter
    /\ nExit' = s.nExit

\* The variables of the script that does not run keep these values.
StrictIdle ==
    /\ pc = "off" /\ i = 0 /\ c5 = NoCandle
    /\ c2h = NoCandle /\ p2h = NoCandle /\ c1h = NoCandle /\ p1h = NoCandle
    /\ account = 0 /\ trades = <<>> /\ dailyTrades = 0
    /\ lastTradeDay = NoDay /\ consecLosses = 0 /\ executedSignals = {}

LiveIdle ==
    /\ ws = "off" /\ candles = <<>> /\ subRefToTF = {} /\ nNew = 0
    /\ accountBalance = 0 /\ tradesThisSession = 0 /\ consecutiveLosses = 0
    /\ pausedForSession = FALSE

\* No candle record, no pivot, no trend.
NoSwing == [type |-> "NONE"]
NoTrend == "none"

StructIdle ==
    /\ spc = "off" /\ rows = <<>> /\ swings = <<>> /\ si = 0
    /\ lastHighSeen = NoSwing /\ lastLowSeen = NoSwing /\ currentTrend = NoTrend
    /\ events = <<>>

FindIdle == fpc = "off" /\ fArr = <<>> /\ fEpoch = 0 /\ fAns = NoCandle

FetchIdle ==
    /\ sock = "off" /\ currentTFIndex = 0 /\ dl = "off" /\ call = NoCall
    /\ delay = 0 /\ request = NoRequest /\ files = <<>>

LTFIdle ==
    /\ lpc = "off" /\ candlesLTF = <<>> /\ iLTF = 0 /\ balance = 0 /\ tradesLTF = <<>>

StrictInit ==
    /\ prog = "strict"
    /\ LiveIdle /\ StructIdle /\ LTFIdle /\ FindIdle /\ FetchIdle
    /\ pc = "loop"
    /\ i = 0
    /\ c5 = NoCandle
    /\ c2h = NoCandle /\ p2h = NoCandle
    /\ c1h = NoCandle /\ p1h = NoCandle
    /\ account = INITIAL_EQUITY
    /\ position = NoPos
    /\ trades = <<>>
    /\ dailyTrades = 0
    /\ lastTradeDay = NoDay
    /\ consecLosses = 0
    /\ executedSignals = {}
    /\ nEnter = 0 /\ nExit = 0

\* Epoch of the first 5M candle: a UTC midnight, or two bars before one.
StartEpochs == { DAY_SECONDS, DAY_SECONDS - (GRAN_5M + GRAN_5M) }

\* The HTF candles that may open with the 5M candle at epoch e: none, or the next
\* candle of one series.  Once the 2H series has Bollinger bands the script never
\* reads the 1H series again, so its later candles are left out.
HTFSteps(e) ==
    {[tf |-> "NONE", candle |-> NoCandle]} \cup
    { [tf |-> "2H", candle |-> HTFCandle(e, b[1], b[2], x[1], x[2])] :
        b \in BodiesHTF, x \in IndicatorInputs(c2h) } \cup
    (IF c2h # NoCandle /\ c2h.bb # NoBB THEN {}
     ELSE { [tf |-> "1H", candle |-> HTFCandle(e, b[1], b[2], x[1], x[2])] :
              b \in BodiesHTF, x \in IndicatorInputs(c1h) })

\* The loop takes the next candle of candles5m.  The HTF series are read through
\* findLatestAtOrBefore only, so the model walks along them: between two 5M candles
\* a series keeps its latest candle or moves on to a new one opening with the bar.
\* The file starts at one of `starts`, its 5M candles have the bodies `bodies` and
\* the HTF files in use are `tfs`.
ReplayBar(starts, bodies, tfs) ==
    /\ prog = "strict" /\ pc = "loop" /\ i < MaxBars
    /\ \E e \in (IF c5 = NoCandle THEN starts ELSE {c5.epoch + GRAN_5M}),
          b \in bodies :
        \E h \in { x \in HTFSteps(e) : x.tf \in tfs \cup {"NONE"} } :
          LET bar == Candle(e, b[1], b[2])
              n2h == IF h.tf = "2H" THEN h.candle ELSE c2h
              q2h == IF h.tf = "2H" THEN Body(c2h) ELSE p2h
              n1h == IF h.tf = "1H" THEN h.candle ELSE c1h
              q1h == IF h.tf = "1H" THEN Body(c1h) ELSE p1h
          IN  /\ c2h' = n2h /\ p2h' = q2h /\ c1h' = n1h /\ p1h' = q1h
              /\ c5' = bar
              /\ i' = i + 1
              /\ \E s \in {loopBody(State, bar, i, n2h, q2h, n1h, q1h)} : Store(s)
    /\ UNCHANGED <<otherVars, prog, pc, liveVars>>

BacktestLoop == ReplayBar(StartEpochs, Bodies5, {"2H", "1H"})

\* candles5m is exhausted: the loop ends.
LoopExit ==
    /\ prog = "strict" /\ pc = "loop"
    /\ pc' = "force"
    /\ UNCHANGED <<otherVars, prog, i, c5, c2h, p2h, c1h, p1h, account, position, trades,
                   dailyTrades, lastTradeDay, consecLosses, executedSignals, nEnter, nExit,
                   liveVars>>

ForceClose ==
    /\ prog = "strict" /\ pc = "force"
    /\ \E s \in {forceClose(State, c5)} : Store(s)
    /\ pc' = "done"
    /\ UNCHANGED <<otherVars, prog, i, c5, c2h, p2h, c1h, p1h, liveVars>>

StrictNext == BacktestLoop \/ LoopExit \/ ForceClose

SpecStrict == StrictInit /\ [][StrictNext]_vars

\* ---- the replay on files whose 5M candles can close on the stop
\* A 5M file that starts three bars before a UTC midnight; among its candles is a
\* falling one that closes on the high of the HTF candles (entry = stop for a SHORT).
\* Only the 2H file has candles.
ZeroRiskStarts == { DAY_SECONDS - (GRAN_5M + GRAN_5M + GRAN_5M) }
ZeroRiskBodies == { <<PriceLo, PriceMid>>, <<PriceMid, PriceLo>>, <<PriceHi + 1, PriceHi>> }

BacktestLoopZeroRisk == ReplayBar(ZeroRiskStarts, ZeroRiskBodies, {"2H"})

ZeroRiskNext == BacktestLoopZeroRisk \/ LoopExit \/ ForceClose

SpecZeroRisk == StrictInit /\ [][ZeroRiskNext]_vars

\* ------------------------------------------------------------- live engine
TFNames == {"2H", "1H", "15M", "5M"}

\* TF: granularity of each timeframe in seconds
TF(tf) == CASE tf = "2H" -> 7200 [] tf = "1H" -> 3600 [] tf = "15M" -> 900 [] OTHER -> 300

Last(q) == q[Len(q)]

\* nowStr(epochSec): the time of day of an epoch
nowStr(e) == e % DAY_SECONDS

\* The mutable state of the engine, as one value.
LiveState ==
    [candles |-> candles, accountBalance |-> accountBalance,
     tradesThisSession |-> tradesThisSession, consecutiveLosses |-> consecutiveLosses,
     pausedForSession |-> pausedForSession, position |-> position,
     nEnter |-> nEnter, nExit |-> nExit]

\* computeBB / computeEMA on n closes: null below the period, else what the library
\* returns.
computeBB(n, period, lib) == IF n < period THEN NoBB ELSE lib
computeEMA(n, period, lib) == IF n < period THEN NoEMA ELSE lib

minHTF == Max(BB_PERIOD, HTF_EMA) + 2

\* detectHTFSignal(tfName) of the live engine; libBB and libEMA are the library's
\* results for the buffer's closes.
detectHTFSignalLive(cs, tfName, libBB, libEMA) ==
    LET buf == cs[tfName]
    IN  IF Len(buf) < minHTF THEN NoSig
        ELSE
        LET prev == buf[Len(buf) - 1]
            curr == buf[Len(buf)]
            bb == computeBB(Len(buf), BB_PERIOD, libBB)
            ema == computeEMA(Len(buf), HTF_EMA, libEMA)
        IN  IF bb = NoBB \/ ema = NoEMA THEN NoSig
            ELSE
            LET overbought == curr.close >= bb.upper
                oversold == curr.close <= bb.lower
                bullEng == isBullishEngulf(curr, prev)
                bearEng == isBearishEngulf(curr, prev)
                sig(m, b) == [tfName |-> tfName, mode |-> m, bias |-> b, bb |-> bb,
                              ema |-> ema, htfCandle |-> curr, module |-> m]
            IN  IF overbought /\ bearEng THEN sig("MR", "SHORT")
                ELSE IF oversold /\ bullEng THEN sig("MR", "LONG")
                ELSE IF bullEng /\ curr.close > ema THEN sig("CONT", "LONG")
                ELSE IF bearEng /\ curr.close < ema THEN sig("CONT", "SHORT")
                ELSE NoSig

etfAlignedEngulf(cs) ==
    LET tf15 == cs["15M"]
        tf5 == cs["5M"]
    IN  IF Len(tf15) < 2 \/ Len(tf5) < 2 THEN "NONE"
        ELSE
        LET p15 == tf15[Len(tf15) - 1]
            c15 == tf15[Len(tf15)]
            p5 == tf5[Len(tf5) - 1]
            c5l == tf5[Len(tf5)]
        IN  IF isBullishEngulf(c15, p15) /\ isBullishEngulf(c5l, p5) THEN "LONG"
            ELSE IF isBearishEngulf(c15, p15) /\ isBearishEngulf(c5l, p5) THEN "SHORT"
            ELSE "NONE"

\* The first line of the live tryEnterTrade without its test of position.
entryBlockedIgnoringPosition(s, htfSig, etfBias) ==
    \/ htfSig = NoSig
    \/ etfBias = "NONE"
    \/ s.pausedForSession
    \/ s.tradesThisSession >= MAX_TRADES_PER_SESSION

\* The first line of the live tryEnterTrade: the conditions under which it returns.
entryBlocked(s, htfSig, etfBias) ==
    \/ htfSig = NoSig
    \/ etfBias = "NONE"
    \/ s.pausedForSession
    \/ s.position # NoPos
    \/ s.tradesThisSession >= MAX_TRADES_PER_SESSION

\* tryEnterTrade(htfSig, etfBias) of the live engine.
tryEnterTradeLive(s, htfSig, etfBias) ==
    IF entryBlocked(s, htfSig, etfBias) THEN s
    ELSE IF htfSig.bias # etfBias THEN s
    ELSE IF Len(s.candles["5M"]) = 0 THEN s
    ELSE
    LET last5 == Last(s.candles["5M"])
        entry == last5.close
        entryTime == nowStr(last5.epoch)
        H == htfSig.htfCandle.high
        L == htfSig.htfCandle.low
        eps == Abs(entry) \div EPS_DIV
        stop == IF etfBias = "LONG" THEN Min(L, entry) - eps ELSE Max(H, entry) + eps
        target == IF htfSig.mode = "MR" THEN htfSig.bb.middle
                  ELSE IF etfBias = "LONG" THEN entry + 2 * (entry - stop)
                  ELSE entry - 2 * (stop - entry)
        riskPerTrade == riskPerTradeOf(s.accountBalance)
        riskPerUnit == IF etfBias = "LONG" THEN entry - stop ELSE stop - entry
        qty == IF riskPerUnit > 0 THEN riskPerTrade \div riskPerUnit ELSE 0
    IN  IF qty <= 0 THEN s
        ELSE [s EXCEPT
                !.position = [side |-> etfBias, entry |-> entry, time |-> entryTime,
                              stop |-> stop, target |-> target, qty |-> qty,
                              module |-> htfSig.mode,
                              htfRef |-> [tf |-> htfSig.tfName,
                                          epoch |-> htfSig.htfCandle.epoch]],
                !.tradesThisSession = @ + 1,
                !.nEnter = @ + 1]

\* The price managePositionOn5mClose compares with stop and target.
managedPriceLive(last5) == last5.close

\* The exit managePositionOn5mClose decides for position p at price px.
exitOn5mClose(p, px) ==
    IF p.side = "LONG"
        THEN IF px <= p.stop THEN [price |-> p.stop, reason |-> "STOP"]
             ELSE IF px >= p.target THEN [price |-> p.target, reason |-> "TARGET"]
             ELSE NoExit
        ELSE IF px >= p.stop THEN [price |-> p.stop, reason |-> "STOP"]
             ELSE IF px <= p.target THEN [price |-> p.target, reason |-> "TARGET"]
             ELSE NoExit

managePositionOn5mClose(s) ==
    IF s.position = NoPos THEN s
    ELSE IF Len(s.candles["5M"]) = 0 THEN s
    ELSE
    LET p == s.position
        last5 == Last(s.candles["5M"])
        exit == exitOn5mClose(p, managedPriceLive(last5))
    IN  IF exit = NoExit THEN s
        ELSE
        LET pnlPerUnit == IF p.side = "LONG" THEN exit.price - p.entry
                          ELSE p.entry - exit.price
            tradePnL == pnlPerUnit * p.qty
            losses == IF tradePnL > 0 THEN 0 ELSE s.consecutiveLosses + 1
        IN  [s EXCEPT
                !.accountBalance = @ + tradePnL,
                !.consecutiveLosses = losses,
                !.pausedForSession = IF losses >= LOSS_PAUSE_AFTER THEN TRUE ELSE @,
                !.nExit = @ + 1,
                !.position = NoPos]

readyToEvaluate(cs) ==
    LET have2H == Len(cs["2H"]) >= minHTF
        have1H == Len(cs["1H"]) >= minHTF
        have15 == Len(cs["15M"]) >= 2
        have5 == Len(cs["5M"]) >= 2
    IN  (have2H \/ have1H) /\ have15 /\ have5

evaluateSignalsWithHeartbeat(s, libBB, libEMA) ==
    IF ~readyToEvaluate(s.candles) THEN s
    ELSE
    LET htfName == IF Len(s.candles["2H"]) >= minHTF THEN "2H" ELSE "1H"
        htfSig == detectHTFSignalLive(s.candles, htfName, libBB, libEMA)
        etfBias == etfAlignedEngulf(s.candles)
    IN  IF htfSig # NoSig /\ etfBias # "NONE" /\ htfSig.bias = etfBias
            THEN tryEnterTradeLive(s, htfSig, etfBias)
            ELSE s

\* The ohlc branch without the shift that caps the buffer.
mergeOhlcUncapped(s, tfName, newC) ==
    LET buf == s.candles[tfName]
    IN  IF Len(buf) > 0 /\ Last(buf).epoch = newC.epoch
            THEN [s EXCEPT !.candles[tfName] = [buf EXCEPT ![Len(buf)] = newC]]
        ELSE
        LET s1 == [s EXCEPT !.candles[tfName] = Append(buf, newC)]
        IN  IF tfName = "5M" THEN managePositionOn5mClose(s1) ELSE s1

\* The ohlc branch without the test of the last candle's epoch: every update is pushed.
mergeOhlcAlwaysPush(s, tfName, newC) ==
    LET buf == s.candles[tfName]
        pushed == Append(buf, newC)
        capped == IF Len(pushed) > BufCap THEN Tail(pushed) ELSE pushed
        s1 == [s EXCEPT !.candles[tfName] = capped]
    IN  IF tfName = "5M" THEN managePositionOn5mClose(s1) ELSE s1

\* The ohlc branch up to the evaluation: replace the last candle or append, cap, manage.
mergeOhlc(s, tfName, newC) ==
    LET buf == s.candles[tfName]
    IN  IF Len(buf) > 0 /\ Last(buf).epoch = newC.epoch
            THEN [s EXCEPT !.candles[tfName] = [buf EXCEPT ![Len(buf)] = newC]]
        ELSE
        LET pushed == Append(buf, newC)
            capped == IF Len(pushed) > BufCap THEN Tail(pushed) ELSE pushed
            s1 == [s EXCEPT !.candles[tfName] = capped]
        IN  IF tfName = "5M" THEN managePositionOn5mClose(s1) ELSE s1

\* The whole ohlc branch of ws.on('message').
onOhlc(s, tfName, newC, libBB, libEMA) ==
    evaluateSignalsWithHeartbeat(mergeOhlc(s, tfName, newC), libBB, libEMA)

\* The candles branch of ws.on('message').
onCandles(s, tfName, hist, libBB, libEMA) ==
    evaluateSignalsWithHeartbeat([s EXCEPT !.candles[tfName] = hist], libBB, libEMA)

\* Candles before the last two are read by the indicator library alone, whose results
\* are inputs here: the model keeps their epoch and drops their prices.
Older(buf) ==
    [k \in 1 .. Len(buf) |-> IF k < Len(buf) - 1 THEN [epoch |-> buf[k].epoch] ELSE buf[k]]

StoreLive(s) ==
    /\ candles' = [tf \in TFNames |-> Older(s.candles[tf])]
    /\ accountBalance' = s.accountBalance
    /\ tradesThisSession' = s.tradesThisSession
    /\ consecutiveLosses' = s.consecutiveLosses
    /\ pausedForSession' = s.pausedForSession
    /\ position' = s.position
    /\ nEnter' = s.nEnter
    /\ nExit' = s.nExit

\* ---- the feed
\* Open/close pairs the feed sends for a timeframe.
LiveBodies(tf) == IF tf = "5M" THEN UnitBodies
                  ELSE { <<PriceMid, PriceHi>>, <<PriceMid, PriceLo>> }

\* Epoch of the candle in progress when the engine subscribes: the last 5M candle of
\* a UTC date, so that the candles opened afterwards belong to the next date.
LiveStart == 2 * DAY_SECONDS - GRAN_5M

\* A history response: HistCount candles up to the one in progress, the last one
\* engulfing the one before it.
Histories(tf) ==
    { [k \in 1 .. HistCount |->
         LET e == LiveStart - (HistCount - k) * TF(tf)
         IN  IF k = HistCount THEN Candle(e, b[1], b[2]) ELSE Candle(e, b[2], b[1])] :
      b \in LiveBodies(tf) }

\* Timeframes that open a new candle, and timeframes whose candle in progress is
\* updated, while the model watches the feed.
FreshTFs == {"5M"}
UpdateTFs == {"5M"}

LiveInit ==
    /\ prog = "live"
    /\ StrictIdle /\ StructIdle /\ LTFIdle /\ FindIdle /\ FetchIdle
    /\ ws = "connecting"
    /\ candles = [tf \in TFNames |-> <<>>]
    /\ subRefToTF = {}
    /\ nNew = 0
    /\ accountBalance = INITIAL_EQUITY
    /\ tradesThisSession = 0
    /\ consecutiveLosses = 0
    /\ pausedForSession = FALSE
    /\ position = NoPos
    /\ nEnter = 0 /\ nExit = 0

\* ws.on('open'): the authorize request is sent.
OnOpen ==
    /\ prog = "live" /\ ws = "connecting"
    /\ ws' = "open"
    /\ UNCHANGED <<otherVars, prog, position, nEnter, nExit, strictVars, candles, subRefToTF, nNew,
                   accountBalance, tradesThisSession, consecutiveLosses, pausedForSession>>

\* ws.on('message'), msg_type authorize: subscribeAllTimeframes.
OnAuthorize ==
    /\ prog = "live" /\ ws = "open"
    /\ ws' = "authorized"
    /\ UNCHANGED <<otherVars, prog, position, nEnter, nExit, strictVars, candles, subRefToTF, nNew,
                   accountBalance, tradesThisSession, consecutiveLosses, pausedForSession>>

\* ws.on('message'), msg_type candles: the history of one subscription.
OnCandles ==
    /\ prog = "live" /\ ws = "authorized"
    /\ \E tf \in TFNames \ subRefToTF, libBB \in Bands, libEMA \in EMAs :
         \E hist \in Histories(tf) :
           /\ subRefToTF' = subRefToTF \cup {tf}
           /\ \E s \in {onCandles(LiveState, tf, hist, libBB, libEMA)} : StoreLive(s)
    /\ UNCHANGED <<otherVars, prog, strictVars, ws, nNew>>

\* ws.on('message'), msg_type ohlc: an update of the candle in progress of a
\* subscribed timeframe, or the first tick of the next candle.
OnOhlc ==
    /\ prog = "live" /\ ws = "authorized"
    /\ \E tf \in subRefToTF, fresh \in BOOLEAN, libBB \in Bands, libEMA \in EMAs :
         \E b \in LiveBodies(tf) :
           LET last == Last(candles[tf])
               e == IF fresh THEN last.epoch + TF(tf) ELSE last.epoch
           IN  /\ fresh => (nNew < MaxNew /\ tf \in FreshTFs)
               /\ ~fresh => tf \in UpdateTFs
               /\ nNew' = IF fresh THEN nNew + 1 ELSE nNew
               /\ \E s \in {onOhlc(LiveState, tf, Candle(e, b[1], b[2]), libBB, libEMA)} :
                     StoreLive(s)
    /\ UNCHANGED <<otherVars, prog, strictVars, ws, subRefToTF>>

\* ws.on('close'): the closure is logged.
OnClose ==
    /\ prog = "live" /\ ws \in {"open", "authorized"}
    /\ ws' = "closed"
    /\ UNCHANGED <<otherVars, prog, position, nEnter, nExit, strictVars, candles, subRefToTF, nNew,
                   accountBalance, tradesThisSession, consecutiveLosses, pausedForSession>>

LiveNext == OnOpen \/ OnAuthorize \/ OnCandles \/ OnOhlc \/ OnClose

SpecLive == LiveInit /\ [][LiveNext]_vars

\* ------------------------------------------------------------- both scripts
Init == StrictInit \/ LiveInit
Next == StrictNext \/ LiveNext
Spec == Init /\ [][Next]_vars

\* ------------------------------------------------------------- structure scripts
\* src/unnamed/part_002 (prog = "bos": a pivot breaks the price of the last pivot of
\* its kind) and src/index3.js (prog = "bos3": the candle of a pivot breaks the body
\* of the candle of the last pivot of its kind).

\* q[k] of a JavaScript array
At(q, k) == q[k + 1]

\* Swing high with ties shut out: strictly above every other bar of the window.
isSwingHighStrict(cs, idx, size) ==
    IF idx < size \/ idx >= Len(cs) - size THEN FALSE
    ELSE \A k \in (idx - size)..(idx + size) : k # idx => At(cs, k).high < At(cs, idx).high

isSwingHigh(cs, idx, size) ==
    IF idx < size \/ idx >= Len(cs) - size THEN FALSE
    ELSE \A k \in (idx - size)..(idx + size) : ~(At(cs, k).high > At(cs, idx).high)

isSwingLow(cs, idx, size) ==
    IF idx < size \/ idx >= Len(cs) - size THEN FALSE
    ELSE \A k \in (idx - size)..(idx + size) : ~(At(cs, k).low < At(cs, idx).low)

\* The loop of detectSwings / detectRawSwings from index idx on.
RECURSIVE swingsFrom(_, _)
swingsFrom(cs, idx) ==
    IF idx >= Len(cs) - SWING_SIZE THEN <<>>
    ELSE (IF isSwingHigh(cs, idx, SWING_SIZE)
              THEN << [type |-> "H", index |-> idx, price |-> At(cs, idx).high,
                       time |-> At(cs, idx).time] >>
              ELSE <<>>)
         \o (IF isSwingLow(cs, idx, SWING_SIZE)
                 THEN << [type |-> "L", index |-> idx, price |-> At(cs, idx).low,
                          time |-> At(cs, idx).time] >>
                 ELSE <<>>)
         \o swingsFrom(cs, idx + 1)

\* An insertion that puts an entry before the entries of its own index.
RECURSIVE insertBeforeTies(_, _)
insertBeforeTies(q, x) ==
    IF q = <<>> THEN <<x>>
    ELSE IF Last(q).index - x.index >= 0
        THEN Append(insertBeforeTies(SubSeq(q, 1, Len(q) - 1), x), Last(q))
        ELSE Append(q, x)

\* swings.sort((a, b) => a.index - b.index): a stable insertion sort
RECURSIVE insertByIndex(_, _)
insertByIndex(q, x) ==
    IF q = <<>> THEN <<x>>
    ELSE IF Last(q).index - x.index > 0
        THEN Append(insertByIndex(SubSeq(q, 1, Len(q) - 1), x), Last(q))
        ELSE Append(q, x)

RECURSIVE sortByIndex(_)
sortByIndex(q) ==
    IF q = <<>> THEN <<>>
    ELSE insertByIndex(sortByIndex(SubSeq(q, 1, Len(q) - 1)), Last(q))

detectRawSwings(cs) == sortByIndex(swingsFrom(cs, SWING_SIZE))

detectSwings(cs) == swingsFrom(cs, SWING_SIZE)

\* The first pivot of a type in the stream, in place of the latest one before idx.
prevSwingFirst(sw, idx, type) ==
    LET found == { j \in 0..(idx - 1) : At(sw, j).type = type }
    IN  IF found = {} THEN NoSwing
        ELSE At(sw, CHOOSE j \in found : \A k \in found : j <= k)

\* for (let j = i - 1; j >= 0; j--) if (swings[j].type === type) { prev = swings[j]; break; }
RECURSIVE prevSwing(_, _, _)
prevSwing(sw, idx, type) ==
    IF idx - 1 < 0 THEN NoSwing
    ELSE IF At(sw, idx - 1).type = type THEN At(sw, idx - 1)
    ELSE prevSwing(sw, idx - 1, type)

\* for (let k = startIdx + 1; k <= endIdx; k++) if (close rose / fell) dirCandles++
RECURSIVE dirCandles(_, _, _, _)
dirCandles(cs, k, endIdx, up) ==
    IF k > endIdx THEN 0
    ELSE (IF (up /\ At(cs, k).close > At(cs, k - 1).close)
             \/ (~up /\ At(cs, k).close < At(cs, k - 1).close) THEN 1 ELSE 0)
         + dirCandles(cs, k + 1, endIdx, up)

\* The local variables of detectBOSFromSwings, as one value.
BosState ==
    [lastHighSeen |-> lastHighSeen, lastLowSeen |-> lastLowSeen,
     currentTrend |-> currentTrend, events |-> events]

\* The event type chosen without looking at the trend: always a BOS.
eventTypeAlwaysBOS(trend, up) == IF up THEN "BOS_UP" ELSE "BOS_DOWN"

\* The labels the other way round: a CHoCH when the trend already has the direction of
\* the break, a BOS when it is the opposite one or unknown.
eventTypeWithTrend(trend, up) ==
    IF up THEN (IF trend = "bullish" THEN "CHoCH_UP" ELSE "BOS_UP")
    ELSE (IF trend = "bearish" THEN "CHoCH_DOWN" ELSE "BOS_DOWN")

\* currentTrend === "bearish" ? "CHoCH_UP" : "BOS_UP", and the mirror
eventType(trend, up) ==
    IF up THEN (IF trend = "bearish" THEN "CHoCH_UP" ELSE "BOS_UP")
    ELSE (IF trend = "bullish" THEN "CHoCH_DOWN" ELSE "BOS_DOWN")

\* A leg that has to pass both tests.
isImpulsiveBoth(dirC, legPts) == dirC >= MIN_IMPULSE_CANDLES /\ legPts >= MIN_LEG_PTS

\* const isImpulsive = dirCandles >= MIN_IMPULSE_CANDLES || legPts >= MIN_LEG_PTS
isImpulsive(dirC, legPts) == dirC >= MIN_IMPULSE_CANDLES \/ legPts >= MIN_LEG_PTS

\* The reference pivot moved only when the pivot made an event.
lastSeenOnEvent(prev, s, emitted) == IF emitted THEN s ELSE prev

\* lastHighSeen = s; / lastLowSeen = s; after the if, whether or not an event was pushed
lastSeenAfter(prev, s, emitted) == s

\* part_002: one iteration of the loop of detectBOSFromSwings, on swings[idx].
bosStep(st, sw, idx, cs) ==
    LET s == At(sw, idx)
    IN  IF s.type = "H" THEN
            LET broke == st.lastHighSeen # NoSwing /\ s.price > st.lastHighSeen.price
                prevLow == prevSwing(sw, idx, "L")
                st1 ==
                    IF broke /\ prevLow # NoSwing THEN
                        LET startIdx == prevLow.index
                            endIdx == s.index
                            startPrice == prevLow.price
                            endPrice == s.price
                            legPts == endPrice - startPrice
                            dirC == dirCandles(cs, startIdx + 1, endIdx, TRUE)
                        IN  IF isImpulsive(dirC, legPts)
                                THEN [st EXCEPT
                                        !.events = Append(@,
                                            [type |-> eventType(st.currentTrend, TRUE),
                                             time |-> s.time,
                                             startTime |-> At(cs, startIdx).time,
                                             endTime |-> At(cs, endIdx).time,
                                             startPrice |-> startPrice,
                                             endPrice |-> endPrice,
                                             legPts |-> legPts,
                                             dirCandles |-> dirC]),
                                        !.currentTrend = "bullish"]
                                ELSE st
                    ELSE st
            IN  [st1 EXCEPT !.lastHighSeen = lastSeenAfter(st.lastHighSeen, s, st1.events # st.events)]
        ELSE IF s.type = "L" THEN
            LET broke == st.lastLowSeen # NoSwing /\ s.price < st.lastLowSeen.price
                prevHigh == prevSwing(sw, idx, "H")
                st1 ==
                    IF broke /\ prevHigh # NoSwing THEN
                        LET startIdx == prevHigh.index
                            endIdx == s.index
                            startPrice == prevHigh.price
                            endPrice == s.price
                            legPts == startPrice - endPrice
                            dirC == dirCandles(cs, startIdx + 1, endIdx, FALSE)
                        IN  IF isImpulsive(dirC, legPts)
                                THEN [st EXCEPT
                                        !.events = Append(@,
                                            [type |-> eventType(st.currentTrend, FALSE),
                                             time |-> s.time,
                                             startTime |-> At(cs, startIdx).time,
                                             endTime |-> At(cs, endIdx).time,
                                             startPrice |-> startPrice,
                                             endPrice |-> endPrice,
                                             legPts |-> legPts,
                                             dirCandles |-> dirC]),
                                        !.currentTrend = "bearish"]
                                ELSE st
                    ELSE st
            IN  [st1 EXCEPT !.lastLowSeen = lastSeenAfter(st.lastLowSeen, s, st1.events # st.events)]
        ELSE st

\* index3.js: one iteration of the loop of detectBOSFromSwings, on swings[idx].
bosStep3(st, sw, idx, cs) ==
    LET s == At(sw, idx)
        candle == At(cs, s.index)
    IN  IF s.type = "H" THEN
            LET brokeBody ==
                    /\ st.lastHighSeen # NoSwing
                    /\ LET prevCandle == At(cs, st.lastHighSeen.index)
                           prevBodyHigh == Max(prevCandle.open, prevCandle.close)
                           prevWickHigh == prevCandle.high
                           curBodyLow == Min(candle.open, candle.close)
                       IN  curBodyLow > prevBodyHigh /\ candle.close > prevWickHigh
                prevLow == prevSwing(sw, idx, "L")
                st1 ==
                    IF brokeBody /\ prevLow # NoSwing THEN
                        LET startPrice == prevLow.price
                            endPrice == candle.high
                            legPts == endPrice - startPrice
                        IN  [st EXCEPT
                                !.events = Append(@,
                                    [timestamp |-> candle.time,
                                     type |-> eventType(st.currentTrend, TRUE),
                                     startPrice |-> startPrice,
                                     endPrice |-> endPrice,
                                     legPts |-> legPts]),
                                !.currentTrend = "bullish"]
                    ELSE st
            IN  [st1 EXCEPT !.lastHighSeen = lastSeenAfter(st.lastHighSeen, s, st1.events # st.events)]
        ELSE IF s.type = "L" THEN
            LET brokeBody ==
                    /\ st.lastLowSeen # NoSwing
                    /\ LET prevCandle == At(cs, st.lastLowSeen.index)
                           prevBodyLow == Min(prevCandle.open, prevCandle.close)
                           prevWickLow == prevCandle.low
                           curBodyHigh == Max(candle.open, candle.close)
                       IN  curBodyHigh < prevBodyLow /\ candle.close < prevWickLow
                prevHigh == prevSwing(sw, idx, "H")
                st1 ==
                    IF brokeBody /\ prevHigh # NoSwing THEN
                        LET startPrice == prevHigh.price
                            endPrice == candle.low
                            legPts == startPrice - endPrice
                        IN  [st EXCEPT
                                !.events = Append(@,
                                    [timestamp |-> candle.time,
                                     type |-> eventType(st.currentTrend, FALSE),
                                     startPrice |-> startPrice,
                                     endPrice |-> endPrice,
                                     legPts |-> legPts]),
                                !.currentTrend = "bearish"]
                    ELSE st
            IN  [st1 EXCEPT !.lastLowSeen = lastSeenAfter(st.lastLowSeen, s, st1.events # st.events)]
        ELSE st

StoreBos(st) ==
    /\ lastHighSeen' = st.lastHighSeen
    /\ lastLowSeen' = st.lastLowSeen
    /\ currentTrend' = st.currentTrend
    /\ events' = st.events

\* Open/close pairs of the rows of the CSV file: a low, a middle and a high range
\* that do not overlap, the middle one in both directions, and a bar that spans all.
StructBodies == { <<85, 80>>, <<90, 100>>, <<100, 90>>, <<101, 105>>, <<105, 80>> }

\* A row of the file as loadDataFromCSV keeps it; its time is its place in the file.
Row(t, o, c) ==
    [time |-> t, open |-> o, high |-> Max(o, c), low |-> Min(o, c), close |-> c]

StructProgs == {"bos", "bos3"}

StructInit ==
    /\ prog \in StructProgs
    /\ StrictIdle /\ LiveIdle /\ LTFIdle /\ FindIdle /\ FetchIdle
    /\ position = NoPos /\ nEnter = 0 /\ nExit = 0
    /\ spc = "load"
    /\ rows = <<>>
    /\ swings = <<>>
    /\ si = 0
    /\ lastHighSeen = NoSwing /\ lastLowSeen = NoSwing /\ currentTrend = NoTrend
    /\ events = <<>>

\* .on("data", r => rows.push({...}))
OnData ==
    /\ prog \in StructProgs /\ spc = "load" /\ Len(rows) < MaxRows
    /\ \E b \in StructBodies : rows' = Append(rows, Row(Len(rows), b[1], b[2]))
    /\ UNCHANGED <<prog, position, nEnter, nExit, strictVars, liveVars, ltfVars, findVars, fetchVars,
                   spc, swings, si, lastHighSeen, lastLowSeen, currentTrend, events>>

\* .on("end"): main goes on with detectRawSwings / detectSwings and enters
\* detectBOSFromSwings.
OnEnd ==
    /\ prog \in StructProgs /\ spc = "load"
    /\ swings' = IF prog = "bos" THEN detectRawSwings(rows) ELSE detectSwings(rows)
    /\ spc' = "bos"
    /\ UNCHANGED <<prog, position, nEnter, nExit, strictVars, liveVars, ltfVars, findVars, fetchVars,
                   rows, si, lastHighSeen, lastLowSeen, currentTrend, events>>

\* One iteration of the loop of detectBOSFromSwings.
BosLoop ==
    /\ prog \in StructProgs /\ spc = "bos" /\ si < Len(swings)
    /\ \E st \in { IF prog = "bos" THEN bosStep(BosState, swings, si, rows)
                   ELSE bosStep3(BosState, swings, si, rows) } : StoreBos(st)
    /\ si' = si + 1
    /\ UNCHANGED <<prog, position, nEnter, nExit, strictVars, liveVars, ltfVars, findVars, fetchVars,
                   spc, rows, swings>>

\* return events: main prints them.
BosReturn ==
    /\ prog \in StructProgs /\ spc = "bos" /\ si = Len(swings)
    /\ spc' = "done"
    /\ UNCHANGED <<prog, position, nEnter, nExit, strictVars, liveVars, ltfVars, findVars, fetchVars,
                   rows, swings, si, lastHighSeen, lastLowSeen, currentTrend, events>>

StructNext == OnData \/ OnEnd \/ BosLoop \/ BosReturn

SpecStruct == StructInit /\ [][StructNext]_vars

\* ---- part_002 on files whose legs can fail the impulse filter
\* Rows (open, high, low, close) of a file that opens with a range at 110 - 130 and
\* then trades below it: the bars after the range have falling lows, so that the Low
\* pivot of the range stays the latest one while Highs form below it.
RangeRow == <<120, 130, 110, 120>>
RangeLen == 3
BelowRows ==
    { <<99, 100, 96, 97>>, <<97, 102, 94, 101>>, <<97, 102, 94, 95>>,
      <<95, 101, 90, 92>>, <<92, 105, 85, 104>> }

RowOHLC(t, x) == [time |-> t, open |-> x[1], high |-> x[2], low |-> x[3], close |-> x[4]]

ImpulseInit == StructInit /\ prog = "bos"

\* .on("data", r => rows.push({...})) on these files
OnDataBelowRange ==
    /\ prog = "bos" /\ spc = "load" /\ Len(rows) < MaxRows + RangeLen - 1
    /\ \E x \in (IF Len(rows) < RangeLen THEN {RangeRow} ELSE BelowRows) :
         rows' = Append(rows, RowOHLC(Len(rows), x))
    /\ UNCHANGED <<prog, position, nEnter, nExit, strictVars, liveVars, ltfVars, findVars, fetchVars,
                   spc, swings, si, lastHighSeen, lastLowSeen, currentTrend, events>>

ImpulseNext == OnDataBelowRange \/ OnEnd \/ BosLoop \/ BosReturn

SpecImpulse == ImpulseInit /\ [][ImpulseNext]_vars

\* ------------------------------------------------------------- 15M backtester
\* src/index.js 1-169: Continuation and Mean Reversion on Bollinger bands and ATR.
\* The ATR and the bands of a candle are results of the indicator library and inputs
\* of the model, as is the outcome of comparing the ATR with the mean of the ten ATR
\* values before it.

NoSession == "none"
NoType == "none"

\* getSession(epoch): SESSIONS.find(s => hour >= s.start && hour <= s.end)
getSession(epoch) ==
    LET hour == (epoch % DAY_SECONDS) \div HOUR_SECONDS
    IN  IF hour >= 8 /\ hour <= 11 THEN "London"
        ELSE IF hour >= 13 /\ hour <= 16 THEN "NewYork"
        ELSE NoSession

\* for (let j = i + 1; j < i + 51 && j < candles.length; j++): the four tests are the
\* same for both trade types.  The result carries the candle the scan ended on.
RECURSIVE scanExit(_, _, _, _, _, _)
scanExit(cs, j, jEnd, entry, tp, sl) ==
    IF ~(j < jEnd /\ j < Len(cs)) THEN [result |-> "NoExit", bar |-> j - 1]
    ELSE LET f == At(cs, j)
         IN  IF entry < tp /\ f.high >= tp THEN [result |-> "win", bar |-> j]
             ELSE IF entry > tp /\ f.low <= tp THEN [result |-> "win", bar |-> j]
             ELSE IF entry < sl /\ f.low <= sl THEN [result |-> "loss", bar |-> j]
             ELSE IF entry > sl /\ f.high >= sl THEN [result |-> "loss", bar |-> j]
             ELSE scanExit(cs, j + 1, jEnd, entry, tp, sl)

\* The trade the iteration on candle idx sets up: its type, entry, sl and tp.
\* rising is atr > (sum of atrPadded.slice(i - 10, i)) / 10.
tradeSetup(cs, idx, atr, bb, rising) ==
    LET c == At(cs, idx)
        nextC == At(cs, idx + 1)
        above == c.close > bb.upper
        below == c.close < bb.lower
        cont == /\ (above /\ rising) \/ (below /\ rising)
                /\ (above /\ nextC.close > c.close) \/ (below /\ nextC.close < c.close)
        mr == /\ ~cont
              /\ (c.high > bb.upper /\ c.close < bb.upper)
                    \/ (c.low < bb.lower /\ c.close > bb.lower)
              /\ ~rising
              /\ (above /\ nextC.close < c.close) \/ (below /\ nextC.close > c.close)
    IN  IF cont
            THEN [type |-> "Continuation", entry |-> nextC.close,
                  sl |-> IF above THEN c.close - atr ELSE c.close + atr,
                  tp |-> IF above THEN nextC.close + atr * RISK_REWARD_CONT
                         ELSE nextC.close - atr * RISK_REWARD_CONT]
        ELSE IF mr
            THEN [type |-> "MeanReversion", entry |-> nextC.close,
                  sl |-> IF c.high > bb.upper THEN c.high + atr ELSE c.low - atr,
                  tp |-> bb.middle]
        ELSE [type |-> NoType]

\* The loop variables of the script, as one value.
LTFState == [balance |-> balance, trades |-> tradesLTF]

\* One iteration of the backtest loop, on candle idx.  A ledger record keeps, beside
\* the fields of the script, the index of the entry candle and of the candle the exit
\* scan ended on.
ltfStep(st, cs, idx, atr, bb, rising) ==
    LET c == At(cs, idx)
        session == getSession(c.epoch)
        today == getYYYYMMDD(c.epoch)
        tradesToday == { k \in 1..Len(st.trades) :
                           st.trades[k].date = today /\ st.trades[k].session = session }
    IN  IF atr = 0 \/ bb = NoBB THEN st
        ELSE IF session = NoSession THEN st
        ELSE IF Cardinality(tradesToday) >= MAX_TRADES_PER_SESSION THEN st
        ELSE
        LET t == tradeSetup(cs, idx, atr, bb, rising)
        IN  IF t.type = NoType THEN st
            ELSE
            LET x == scanExit(cs, idx + 1, idx + SCAN_END, t.entry, t.tp, t.sl)
                pnl == IF x.result = "win" THEN Abs(t.tp - t.entry)
                       ELSE IF x.result = "loss" THEN 0 - Abs(t.entry - t.sl)
                       ELSE 0
            IN  [balance |-> st.balance + pnl,
                 trades |-> Append(st.trades,
                     [date |-> today, time |-> epochToISO(c.epoch), session |-> session,
                      type |-> t.type, entry |-> t.entry, sl |-> t.sl, tp |-> t.tp,
                      result |-> x.result, pnl |-> pnl, balance |-> st.balance + pnl,
                      entryBar |-> idx + 1, exitBar |-> x.bar])]

\* ---- the file and the indicator values
\* (high, low, close) of the candles of the file; the script does not read the open.
ShapesLTF ==
    { <<13, 9, 9>>, <<13, 10, 11>>, <<14, 12, 14>>, <<15, 13, 15>>, <<17, 13, 15>> }
BandsLTF == { [upper |-> 12, middle |-> 11, lower |-> 10] }
ATRs == { 0, 1, 2 }

\* Epoch of the first candle: 07:45 or 08:00 UTC (the London session opens at 8).
StartsLTF == { DAY_SECONDS + 8 * HOUR_SECONDS - GRAN_15M, DAY_SECONDS + 8 * HOUR_SECONDS }

RowLTF(e, x) == [epoch |-> e, high |-> x[1], low |-> x[2], close |-> x[3]]

FilesLTF ==
    { [k \in 1..MaxLTF |-> RowLTF(e0 + (k - 1) * GRAN_15M, f[k])] :
        e0 \in StartsLTF, f \in [1..MaxLTF -> ShapesLTF] }

LTFInit ==
    /\ prog = "ltf"
    /\ StrictIdle /\ LiveIdle /\ StructIdle /\ FindIdle /\ FetchIdle
    /\ position = NoPos /\ nEnter = 0 /\ nExit = 0
    /\ lpc = "loop"
    /\ candlesLTF \in FilesLTF
    /\ iLTF = Max(ATR_PERIOD, BB_PERIOD)
    /\ balance = START_BALANCE
    /\ tradesLTF = <<>>

\* for (let i = Math.max(ATR_PERIOD, BB_PERIOD); i < candles.length - 1; i++)
LTFLoop ==
    /\ prog = "ltf" /\ lpc = "loop" /\ iLTF < Len(candlesLTF) - 1
    /\ \E atr \in ATRs, bb \in BandsLTF, rising \in BOOLEAN :
         \E st \in { ltfStep(LTFState, candlesLTF, iLTF, atr, bb, rising) } :
            /\ balance' = st.balance
            /\ tradesLTF' = st.trades
    /\ iLTF' = iLTF + 1
    /\ UNCHANGED <<prog, position, nEnter, nExit, strictVars, liveVars, structVars, findVars, fetchVars,
                   lpc, candlesLTF>>

\* OUTPUT: the ledger and the summary are printed and the ledger is saved.
LTFOutput ==
    /\ prog = "ltf" /\ lpc = "loop" /\ ~(iLTF < Len(candlesLTF) - 1)
    /\ lpc' = "done"
    /\ UNCHANGED <<prog, position, nEnter, nExit, strictVars, liveVars, structVars, findVars, fetchVars,
                   candlesLTF, iLTF, balance, tradesLTF>>

LTFNext == LTFLoop \/ LTFOutput

SpecLTF == LTFInit /\ [][LTFNext]_vars

\* ------------------------------------------------------------- the lookup
\* findLatestAtOrBefore (src/index.js 269-277), the binary search the strict
\* backtester finds the candle of an epoch with, on its own.

\* The loop with the test of the middle candle made strict.
RECURSIVE findLoopStrict(_, _, _, _, _)
findLoopStrict(cs, epoch, lo, hi, ans) ==
    IF ~(lo <= hi) THEN ans
    ELSE LET mid == (lo + hi) \div 2
         IN  IF At(cs, mid).epoch < epoch
                 THEN findLoopStrict(cs, epoch, mid + 1, hi, At(cs, mid))
                 ELSE findLoopStrict(cs, epoch, lo, mid - 1, ans)

\* while (lo <= hi) { mid = floor((lo + hi) / 2); if (candles[mid].epoch <= epoch)
\* { ans = candles[mid]; lo = mid + 1 } else hi = mid - 1 }
RECURSIVE findLoop(_, _, _, _, _)
findLoop(cs, epoch, lo, hi, ans) ==
    IF ~(lo <= hi) THEN ans
    ELSE LET mid == (lo + hi) \div 2
         IN  IF At(cs, mid).epoch <= epoch
                 THEN findLoop(cs, epoch, mid + 1, hi, At(cs, mid))
                 ELSE findLoop(cs, epoch, lo, mid - 1, ans)

findLatestAtOrBefore(cs, epoch) == findLoop(cs, epoch, 0, Len(cs) - 1, NoCandle)

\* Epochs of the candles of an array, and the epochs asked for: on, between, before
\* and after them.
FindEpochs == { k * GRAN_5M : k \in 1..3 }
FindQueries == { k * GRAN_5M + d : k \in 0..3, d \in {0, 1} }

\* The arrays of up to MaxFind candles in non-decreasing order of epoch; a candle
\* carries the number of its row, which tells candles of one epoch apart.
FindArrays ==
    UNION { { [k \in 1..n |-> [epoch |-> f[k], row |-> k - 1]] :
                f \in { g \in [1..n -> FindEpochs] :
                          \A k \in 1..(n - 1) : g[k] <= g[k + 1] } } :
            n \in 0..MaxFind }

FindInit ==
    /\ prog = "find"
    /\ StrictIdle /\ LiveIdle /\ StructIdle /\ LTFIdle /\ FetchIdle
    /\ position = NoPos /\ nEnter = 0 /\ nExit = 0
    /\ fpc = "call"
    /\ fArr \in FindArrays
    /\ fEpoch \in FindQueries
    /\ fAns = NoCandle

\* const c = findLatestAtOrBefore(candles, epoch)
FindCall ==
    /\ prog = "find" /\ fpc = "call"
    /\ fAns' = findLatestAtOrBefore(fArr, fEpoch)
    /\ fpc' = "done"
    /\ UNCHANGED <<prog, position, nEnter, nExit, strictVars, liveVars, structVars,
                   ltfVars, fetchVars, fArr, fEpoch>>

SpecFind == FindInit /\ [][FindCall]_vars

\* ------------------------------------------------------------- properties
\* the sum of pnl over a ledger, as the summary adds it up
RECURSIVE SumPnl(_)
SumPnl(q) == IF q = <<>> THEN 0 ELSE q[1].pnl + SumPnl(Tail(q))

\* the stop test and the target test of managePosition / managePositionOn5mClose
StopCond(p, px) == IF p.side = "LONG" THEN px <= p.stop ELSE px >= p.stop
TargetCond(p, px) == IF p.side = "LONG" THEN px >= p.target ELSE px <= p.target

\* a step of the replay loop, and a live message that opens a new 5M candle
ReplayStep == prog = "strict" /\ i' = i + 1
NewBar5 ==
    /\ prog = "live" /\ subRefToTF' = subRefToTF
    /\ Len(candles["5M"]) > 0
    /\ Last(candles'["5M"]).epoch # Last(candles["5M"]).epoch

\* C1: in both scripts at most one position is open at any time: ENTER and EXIT lines
\* alternate, an ENTER is written only while no position is open, and the position
\* variable is null exactly when every entered position has been closed.
C1_AtMostOnePosition ==
    /\ nEnter - nExit \in {0, 1}
    /\ nEnter - nExit = 1 => position # NoPos
    /\ position = NoPos => nEnter = nExit

\* C1 witness: the live engine holds a position while the buffers show a signal on
\* which it would enter if the position variable were null.
C1_Witness ==
    /\ prog = "live" /\ position # NoPos /\ nEnter = 1
    /\ \E libBB \in Bands, libEMA \in EMAs :
         evaluateSignalsWithHeartbeat([LiveState EXCEPT !.position = NoPos],
                                      libBB, libEMA).nEnter > nEnter

\* the consecutive-loss counter of the running script has reached its threshold
LossLimitReached ==
    IF prog = "strict" THEN consecLosses >= LOSS_LIMIT
    ELSE consecutiveLosses >= LOSS_PAUSE_AFTER

\* C2: once the consecutive-loss counter has reached the threshold it is never lowered,
\* the live pause flag stays set, and no step after that enters a position; the step
\* that reaches the threshold leaves no position open either.
C2_NoEntryAfterLossLimit ==
    [][ /\ LossLimitReached =>
            /\ LossLimitReached'
            /\ consecLosses' >= consecLosses
            /\ consecutiveLosses' >= consecutiveLosses
            /\ nEnter' = nEnter
        /\ LossLimitReached' => position' = NoPos
        /\ (prog = "live" /\ LossLimitReached') => pausedForSession'
        /\ pausedForSession => pausedForSession' ]_vars

\* C2 witness: the replay has taken two losses in a row and its last candle carries a
\* signal that tryEnterTrade would have taken had the counter been 0.
C2_Witness ==
    /\ prog = "strict" /\ pc = "loop" /\ i > 0
    /\ consecLosses >= LOSS_LIMIT
    /\ tryEnterTrade([State EXCEPT !.consecLosses = 0], c5.epoch, c5, i - 1,
                     c2h, p2h, c1h, p1h).nEnter = nEnter + 1

\* C3: in the strict backtester account is the initial equity plus the sum of pnl over
\* the trades ledger, in every state of the replay and after the force close.
C3_AccountIsLedgerSum == account = INITIAL_EQUITY + SumPnl(trades)

\* C3 witness: the run has ended with a stop or target exit and a force close booked.
C3_Witness ==
    /\ pc = "done" /\ Len(trades) >= 2
    /\ Last(trades).reason = "FORCE_CLOSE_END"
    /\ account # INITIAL_EQUITY

\* sides, stops and targets of positions the live engine may be asked to manage
CrossedPositions ==
    { [side |-> sd, stop |-> st, target |-> tg] :
        sd \in {"LONG", "SHORT"}, st \in Prices, tg \in Prices }

\* C4: when the price managePosition / managePositionOn5mClose evaluates passes both
\* the stop test and the target test of the open position, the position is closed at
\* its stop with reason STOP; and on every new live 5M candle the exit decided for any
\* stop and target that its close passes together is the stop.
C4_StopBeforeTarget ==
    [][ /\ (ReplayStep /\ position # NoPos
              /\ StopCond(position, managedPrice(c5'))
              /\ TargetCond(position, managedPrice(c5')))
            => /\ Len(trades') = Len(trades) + 1
               /\ Last(trades').reason = "STOP"
               /\ Last(trades').exit = position.stop
               /\ Last(trades').timeEnter = position.timeEnter
        /\ (NewBar5 /\ position # NoPos
              /\ StopCond(position, managedPriceLive(Last(candles'["5M"])))
              /\ TargetCond(position, managedPriceLive(Last(candles'["5M"]))))
            => /\ nExit' = nExit + 1
               /\ accountBalance' = accountBalance + position.qty *
                    (IF position.side = "LONG" THEN position.stop - position.entry
                     ELSE position.entry - position.stop)
        /\ NewBar5 =>
             LET px == managedPriceLive(Last(candles'["5M"]))
             IN  \A p \in CrossedPositions :
                   (StopCond(p, px) /\ TargetCond(p, px)) =>
                       exitOn5mClose(p, px) = [price |-> p.stop, reason |-> "STOP"] ]_vars

\* C4 witness: the replay has just closed a position on a candle whose close passes
\* both its stop test and its target test, and the record says STOP.
C4_Witness ==
    /\ prog = "strict" /\ Len(trades) >= 1
    /\ Last(trades).timeExit = epochToISO(c5.epoch)
    /\ Last(trades).reason = "STOP"
    /\ StopCond(Last(trades), c5.close)
    /\ TargetCond(Last(trades), c5.close)

\* the candle's high/low range reaches the stop or the target of position p
RangeTouched(p, bar) ==
    IF p.side = "LONG" THEN bar.low <= p.stop \/ bar.high >= p.target
    ELSE bar.high >= p.stop \/ bar.low <= p.target

\* C5: whenever a position is open and a new 5M candle is managed whose high/low range
\* reaches the stop or the target, the position is closed on that candle.
C5_RangeChecked ==
    [][ /\ (ReplayStep /\ position # NoPos /\ RangeTouched(position, c5'))
            => nExit' = nExit + 1
        /\ (NewBar5 /\ position # NoPos /\ RangeTouched(position, Last(candles'["5M"])))
            => nExit' = nExit + 1 ]_vars

\* C6: when the 5M series is exhausted with a position open, the force close appends
\* one record with the force-close reason whose exit is the close of the last 5M
\* candle and adds its pnl to account; with no position open it appends nothing; the
\* ledger never holds two force-close records and at the end of the run holds a record
\* for every position entered.
C6_ForceCloseAtEnd ==
    [][ /\ (pc = "force" /\ pc' = "done" /\ position # NoPos) =>
            LET pnl == position.qty *
                         (IF position.side = "LONG" THEN c5.close - position.entry
                          ELSE position.entry - c5.close)
            IN  /\ trades' = Append(trades,
                                    TradeRecord(position, c5.close, "FORCE_CLOSE_END", pnl,
                                                epochToISO(c5.epoch)))
                /\ account' = account + pnl
        /\ (pc = "force" /\ pc' = "done" /\ position = NoPos) =>
            (trades' = trades /\ account' = account)
        /\ Cardinality({ k \in 1 .. Len(trades') :
                           trades'[k].reason = "FORCE_CLOSE_END" }) <= 1
        /\ pc' = "done" => Len(trades') = nEnter' ]_vars

\* C6 witness: the run has ended with a force close after an earlier closed trade.
C6_Witness ==
    /\ prog = "strict" /\ pc = "done" /\ position # NoPos
    /\ Len(trades) >= 2
    /\ Last(trades).reason = "FORCE_CLOSE_END"
    /\ Last(trades).exit = c5.close
    /\ Last(trades).pnl # 0

\* C7: once the WebSocket has closed no position is open: the close handler force-closes
\* an open position.
C7_ForceCloseOnSocketClose == ws = "closed" => position = NoPos

\* a <<day, second of day>> time lies before another
TimeBefore(a, b) == a[1] < b[1] \/ (a[1] = b[1] /\ a[2] < b[2])

\* C8: in the strict backtester a position is managed before an entry is tried on the
\* same candle: every stop or target exit is on a later 5M candle than its entry, and
\* a position opened in an iteration was entered on that iteration's candle after the
\* exit of the previous one.
C8_ManageBeforeEnter ==
    [][ /\ \A k \in 1 .. Len(trades') :
             trades'[k].reason \in {"STOP", "TARGET"} =>
                 TimeBefore(trades'[k].timeEnter, trades'[k].timeExit)
        /\ (ReplayStep /\ nEnter' = nEnter + 1) =>
             /\ position'.timeEnter = epochToISO(c5'.epoch)
             /\ position # NoPos =>
                  /\ Len(trades') = Len(trades) + 1
                  /\ Last(trades').timeEnter = position.timeEnter
                  /\ Last(trades').timeExit = epochToISO(c5'.epoch) ]_vars

\* C8 witness: a position was closed at its stop or target on the candle after its
\* entry, and a new position was entered on that same candle.
C8_Witness ==
    /\ prog = "strict" /\ pc = "loop" /\ Len(trades) >= 1 /\ position # NoPos
    /\ Last(trades).reason \in {"STOP", "TARGET"}
    /\ Last(trades).timeExit = epochToISO(c5.epoch)
    /\ position.timeEnter = epochToISO(c5.epoch)

\* an ohlc message was handled for a timeframe whose buffer holds candles
OhlcStep(tf) == prog = "live" /\ subRefToTF' = subRefToTF /\ Len(candles[tf]) > 0

\* the buffer after a step is the buffer before it with the last candle replaced
LastReplaced(tf) ==
    /\ Len(candles'[tf]) = Len(candles[tf])
    /\ \A k \in 1 .. Len(candles[tf]) - 1 : candles'[tf][k] = candles[tf][k]

\* C9 as stated: an update with the epoch of the last buffered candle replaces it and
\* keeps the length; an update with a new epoch always makes the buffer one longer.
C9_NewEpochAlwaysGrows ==
    [][ \A tf \in TFNames : OhlcStep(tf) =>
          IF Last(candles'[tf]).epoch = Last(candles[tf]).epoch
              THEN LastReplaced(tf)
              ELSE Len(candles'[tf]) = Len(candles[tf]) + 1 ]_vars

\* C9 amended: an update with the epoch of the last buffered candle replaces it and
\* keeps the length; an update with a new epoch makes the buffer one longer unless
\* that would pass the cap, in which case the oldest candle is dropped and the length
\* stays as it was.
C9_NewEpochGrowsUpToCap ==
    [][ \A tf \in TFNames : OhlcStep(tf) =>
          IF Last(candles'[tf]).epoch = Last(candles[tf]).epoch
              THEN LastReplaced(tf)
              ELSE /\ Len(candles'[tf]) =
                        (IF Len(candles[tf]) + 1 > BufCap THEN Len(candles[tf])
                         ELSE Len(candles[tf]) + 1)
                   /\ Len(candles[tf]) + 1 > BufCap =>
                        candles'[tf][1].epoch = candles[tf][2].epoch ]_vars

\* C9 witness: the 5M buffer is at its cap after two new candles, the first of which
\* made it one longer and the second of which pushed the oldest candle out.
C9_Witness ==
    /\ prog = "live" /\ nNew >= 2
    /\ Len(candles["5M"]) = BufCap
    /\ candles["5M"][1].epoch > LiveStart - (HistCount - 1) * TF("5M")

\* C10: every buffer of the live engine has strictly increasing epochs.
C10_EpochsIncrease ==
    \A tf \in TFNames : \A k \in 1 .. Len(candles[tf]) - 1 :
        candles[tf][k].epoch < candles[tf][k + 1].epoch

\* C10 witness: the 5M buffer has taken every new candle of the session and has
\* dropped its oldest candles to stay at the cap.
C10_Witness ==
    /\ prog = "live" /\ nNew = MaxNew
    /\ Len(candles["5M"]) = BufCap
    /\ Last(candles["5M"]).epoch = LiveStart + MaxNew * TF("5M")

\* Scenario A: the series 10, 12, 8, 15, 9 (each bar a single price)
ScenarioA ==
    << Row(0, 10, 10), Row(1, 12, 12), Row(2, 8, 8), Row(3, 15, 15), Row(4, 9, 9) >>

\* radii the two functions are checked with
Radii == {1, SWING_SIZE}

\* bar idx of cs has `size` bars on either side
HasWindow(cs, idx, size) == size <= idx /\ idx < Len(cs) - size

\* C11: for the rows read from the file, every radius and every index, isSwingHigh
\* holds iff the bar has a full window and no bar of the window has a strictly greater
\* high (isSwingLow: no strictly smaller low), so both are false within `size` of
\* either end; detectSwings lists exactly these bars; and with radius 1 the series
\* 10, 12, 8, 15, 9 has a High at 1, a Low at 2, a High at 3, nothing at 0 and 4.
C11_SwingDefinition ==
    /\ (prog \in StructProgs /\ spc = "load") =>
         \A size \in Radii : \A idx \in 0..(Len(rows) - 1) :
           LET win == (idx - size)..(idx + size)
               full == HasWindow(rows, idx, size)
           IN  /\ isSwingHigh(rows, idx, size) <=>
                    (full /\ ~\E k \in win : At(rows, k).high > At(rows, idx).high)
               /\ isSwingLow(rows, idx, size) <=>
                    (full /\ ~\E k \in win : At(rows, k).low < At(rows, idx).low)
               /\ ~full => ~isSwingHigh(rows, idx, size) /\ ~isSwingLow(rows, idx, size)
    /\ (prog \in StructProgs /\ spc = "bos" /\ si = 0) =>
         \A idx \in 0..(Len(rows) - 1) :
           LET win == (idx - SWING_SIZE)..(idx + SWING_SIZE)
               full == HasWindow(rows, idx, SWING_SIZE)
           IN  /\ (\E k \in 1..Len(swings) : swings[k].type = "H" /\ swings[k].index = idx)
                    <=> (full /\ \A k \in win : At(rows, k).high <= At(rows, idx).high)
               /\ (\E k \in 1..Len(swings) : swings[k].type = "L" /\ swings[k].index = idx)
                    <=> (full /\ \A k \in win : At(rows, k).low >= At(rows, idx).low)
    /\ { idx \in 0..4 : isSwingHigh(ScenarioA, idx, 1) } = {1, 3}
    /\ { idx \in 0..4 : isSwingLow(ScenarioA, idx, 1) } = {2}

\* C11 witness: the pivots of a full file are listed, one bar is a High pivot with a
\* neighbour of the same high, one bar with a full window is not a High pivot, and the
\* first and last bars are no pivots.
C11_Witness ==
    /\ prog \in StructProgs /\ spc = "done" /\ Len(rows) = MaxRows
    /\ \E idx \in 1..(Len(rows) - 2) :
         /\ isSwingHigh(rows, idx, 1)
         /\ At(rows, idx + 1).high = At(rows, idx).high
         /\ \E k \in 1..Len(swings) : swings[k].type = "H" /\ swings[k].index = idx
    /\ \E idx \in 1..(Len(rows) - 2) : ~isSwingHigh(rows, idx, 1)
    /\ \A k \in 1..Len(swings) : swings[k].index \notin {0, Len(rows) - 1}

\* C12: the swing detector never lists the same bar index as a High pivot and as a
\* Low pivot.
C12_NotBothKinds ==
    \A j, k \in 1..Len(swings) :
        swings[j].index = swings[k].index => swings[j].type = swings[k].type

\* direction of a structure event, and of the break the pivot swings[si] can make
EventDir(e) == IF e.type \in {"BOS_UP", "CHoCH_UP"} THEN "bullish" ELSE "bearish"
IsCHoCH(e) == e.type \in {"CHoCH_UP", "CHoCH_DOWN"}
IsBOS(e) == e.type \in {"BOS_UP", "BOS_DOWN"}
BreakDir == IF At(swings, si).type = "H" THEN "bullish" ELSE "bearish"
Opposite(d) == IF d = "bullish" THEN "bearish" ELSE "bullish"

\* C13: in both scripts a step of detectBOSFromSwings emits at most one event; the
\* event has the direction of the break, it is a CHoCH iff the trend carried so far is
\* the opposite direction and a BOS iff that trend is the same direction or unknown,
\* and afterwards the trend is the direction of the break; a step without an event
\* keeps the trend.  So the first event is a BOS and a CHoCH never directly follows an
\* event of its own direction.
C13_EventKind ==
    [][ (prog \in StructProgs /\ spc = "bos" /\ si' = si + 1) =>
          IF events' = events THEN currentTrend' = currentTrend
          ELSE LET e == Last(events')
               IN  /\ events' = Append(events, e)
                   /\ EventDir(e) = BreakDir
                   /\ IsCHoCH(e) <=> currentTrend = Opposite(BreakDir)
                   /\ IsBOS(e) <=> currentTrend \in {BreakDir, NoTrend}
                   /\ IsCHoCH(e) # IsBOS(e)
                   /\ currentTrend' = BreakDir
                   /\ events = <<>> => IsBOS(e) /\ currentTrend = NoTrend
                   /\ events # <<>> =>
                        /\ currentTrend = EventDir(Last(events))
                        /\ IsCHoCH(e) => EventDir(Last(events)) # EventDir(e)
      ]_vars

\* C13 witness: the body-break script has emitted a BOS, a BOS of the same direction
\* or a CHoCH after it, and in some run a CHoCH_DOWN right after a BOS_UP.
C13_Witness ==
    /\ prog = "bos3" /\ Len(events) >= 2
    /\ events[1].type = "BOS_UP" /\ events[2].type = "CHoCH_DOWN"
    /\ currentTrend = "bearish"

\* the latest pivot of a type among swings[0 .. idx - 1]: one of that type with no
\* pivot of that type after it
LatestBefore(sw, idx, type) ==
    LET found == { j \in 0..(idx - 1) : At(sw, j).type = type }
    IN  At(sw, CHOOSE j \in found : \A k \in found : k <= j)

\* Scenario D: the pivots H@100, L@90, H@105 of a five-bar file, gone through by the
\* loop of part_002
ScenarioD_Rows ==
    << Row(0, 95, 95), Row(1, 100, 100), Row(2, 90, 90), Row(3, 105, 105), Row(4, 95, 95) >>
ScenarioD_Swings ==
    << [type |-> "H", index |-> 1, price |-> 100, time |-> 1],
       [type |-> "L", index |-> 2, price |-> 90, time |-> 2],
       [type |-> "H", index |-> 3, price |-> 105, time |-> 3] >>
ScenarioD_Result ==
    LET st0 == [lastHighSeen |-> NoSwing, lastLowSeen |-> NoSwing,
                currentTrend |-> NoTrend, events |-> <<>>]
        st1 == bosStep(st0, ScenarioD_Swings, 0, ScenarioD_Rows)
        st2 == bosStep(st1, ScenarioD_Swings, 1, ScenarioD_Rows)
    IN  bosStep(st2, ScenarioD_Swings, 2, ScenarioD_Rows)

\* C14: when a step of part_002's detector emits an event on a High pivot, the pivot
\* exceeds the last-seen High, the event's leg is the pivot's price minus the price of
\* the latest Low pivot before it in the stream, its start and end prices are those
\* two prices, and the trend is bullish afterwards (mirror image for a Low pivot); the
\* pivots H@100, L@90, H@105 emit one event, a BOS_UP with leg 15.
C14_LegMagnitude ==
    [][ (prog = "bos" /\ spc = "bos" /\ si' = si + 1 /\ events' # events) =>
          LET e == Last(events')
              s == At(swings, si)
          IN  IF s.type = "H"
                  THEN /\ lastHighSeen # NoSwing /\ s.price > lastHighSeen.price
                       /\ \E j \in 0..(si - 1) : At(swings, j).type = "L"
                       /\ e.legPts = s.price - LatestBefore(swings, si, "L").price
                       /\ e.startPrice = LatestBefore(swings, si, "L").price
                       /\ e.endPrice = s.price
                       /\ e.type \in {"BOS_UP", "CHoCH_UP"}
                       /\ currentTrend' = "bullish"
                  ELSE /\ lastLowSeen # NoSwing /\ s.price < lastLowSeen.price
                       /\ \E j \in 0..(si - 1) : At(swings, j).type = "H"
                       /\ e.legPts = LatestBefore(swings, si, "H").price - s.price
                       /\ e.startPrice = LatestBefore(swings, si, "H").price
                       /\ e.endPrice = s.price
                       /\ e.type \in {"BOS_DOWN", "CHoCH_DOWN"}
                       /\ currentTrend' = "bearish"
      ]_vars
    /\ [][ /\ Len(ScenarioD_Result.events) = 1
           /\ ScenarioD_Result.events[1].type = "BOS_UP"
           /\ ScenarioD_Result.events[1].legPts = 15
           /\ ScenarioD_Result.currentTrend = "bullish" ]_vars

\* C14 witness: part_002 has just emitted an upward event with leg 15 on a High pivot
\* at 105 whose latest Low pivot is at 90, with a Low pivot of another price earlier
\* in the stream.
C14_Witness ==
    /\ prog = "bos" /\ spc = "bos" /\ si > 0 /\ events # <<>>
    /\ swings[si].type = "H" /\ swings[si].price = 105
    /\ Last(events).time = swings[si].time
    /\ Last(events).type \in {"BOS_UP", "CHoCH_UP"}
    /\ Last(events).startPrice = 90 /\ Last(events).endPrice = 105
    /\ Last(events).legPts = 15
    /\ currentTrend = "bullish"
    /\ \E j \in 1..(si - 1) : swings[j].type = "L" /\ swings[j].price # 90

\* the pairs (current candle, candle before it) the running script can pass to the
\* engulfing tests in this state
EngulfPairs ==
    IF prog = "strict"
        THEN { pr \in { <<c2h, p2h>>, <<c1h, p1h>> } : pr[1] # NoCandle /\ pr[2] # NoCandle }
    ELSE IF prog = "live"
        THEN { <<candles[tf][Len(candles[tf])], candles[tf][Len(candles[tf]) - 1]>> :
                 tf \in { t \in DOMAIN candles : Len(candles[t]) >= 2 } }
    ELSE {}

\* a candle body mirrored in price
Mirror(c) == [open |-> 0 - c.open, close |-> 0 - c.close]

\* Scenario B on a grid of tenths: prev = {open 10, close 9.5}, curr = {open 9, close 11}
ScenarioB_Prev == [open |-> 100, close |-> 95]
ScenarioB_Curr == [open |-> 90, close |-> 110]

\* C15: for every pair of candles a script can test, isBullishEngulf(curr, prev) holds
\* iff curr closes above its open, prev closes below its open, curr.close >= prev.open
\* and curr.open <= prev.close; isBearishEngulf is the mirror image (the same test on
\* the prices negated); prev = {10, 9.5}, curr = {9, 11} is a bullish engulfing and not
\* a bearish one.
C15_Engulfing ==
    /\ \A pr \in EngulfPairs :
         LET curr == pr[1]
             prev == pr[2]
         IN  /\ isBullishEngulf(curr, prev) <=>
                  (/\ curr.close > curr.open /\ prev.close < prev.open
                   /\ curr.close >= prev.open /\ curr.open <= prev.close)
             /\ isBearishEngulf(curr, prev) <=>
                  (/\ curr.close < curr.open /\ prev.close > prev.open
                   /\ curr.close <= prev.open /\ curr.open >= prev.close)
             /\ isBearishEngulf(curr, prev) <=> isBullishEngulf(Mirror(curr), Mirror(prev))
             /\ isBullishEngulf(curr, prev) <=> isBearishEngulf(Mirror(curr), Mirror(prev))
    /\ isBullishEngulf(ScenarioB_Curr, ScenarioB_Prev)
    /\ ~isBearishEngulf(ScenarioB_Curr, ScenarioB_Prev)
    /\ isBearishEngulf(Mirror(ScenarioB_Curr), Mirror(ScenarioB_Prev))

\* C15 witness: the live buffers hold a bullish engulfing pair on one timeframe and,
\* on another, a rising candle after a falling one that does not engulf it.
C15_Witness ==
    /\ prog = "live"
    /\ \E pr \in EngulfPairs : isBullishEngulf(pr[1], pr[2])
    /\ \E pr \in EngulfPairs :
         /\ pr[1].close > pr[1].open /\ pr[2].close < pr[2].open
         /\ ~isBullishEngulf(pr[1], pr[2])

\* the module and bias the claim's table gives for an HTF candle with its predecessor,
\* bands and EMA
TableSignal(cur, prev, bb, ema) ==
    LET bull == isBullishEngulf(cur, prev)
        bear == isBearishEngulf(cur, prev)
    IN  IF cur.close >= bb.upper /\ bear THEN <<"MR", "SHORT">>
        ELSE IF cur.close <= bb.lower /\ bull THEN <<"MR", "LONG">>
        ELSE IF bull /\ cur.close > ema THEN <<"CONT", "LONG">>
        ELSE IF bear /\ cur.close < ema THEN <<"CONT", "SHORT">>
        ELSE <<"NONE", "NONE">>

\* module and bias of a returned signal
SignalKind(sig) == IF sig = NoSig THEN <<"NONE", "NONE">> ELSE <<sig.module, sig.bias>>

\* the candle the strict detectHTFSignal chooses in this state, with its predecessor
ChosenHTF ==
    IF c2h # NoCandle /\ c2h.bb # NoBB THEN <<c2h, p2h>>
    ELSE IF c1h # NoCandle /\ c1h.bb # NoBB THEN <<c1h, p1h>>
    ELSE <<NoCandle, NoCandle>>

\* both a Mean Reversion row and a Continuation row of the table match
BothMatch(cur, prev, bb, ema) ==
    \/ /\ cur.close >= bb.upper /\ isBearishEngulf(cur, prev) /\ cur.close < ema
    \/ /\ cur.close <= bb.lower /\ isBullishEngulf(cur, prev) /\ cur.close > ema

\* C16: for every HTF bar that is ready (chosen, with a predecessor, bands and an
\* EMA), detectHTFSignal returns the module and bias of the table: MR/SHORT when
\* close >= upper and bearish engulfing, else MR/LONG when close <= lower and bullish
\* engulfing, else CONT/LONG when bullish engulfing and close > EMA, else CONT/SHORT
\* when bearish engulfing and close < EMA, else nothing; so Mean Reversion wins when
\* both match.  The signal carries the bar, its bands and its EMA.
C16_SignalTable ==
    /\ prog = "strict" =>
         LET cur == ChosenHTF[1]
             prev == ChosenHTF[2]
             sig == detectHTFSignal(c2h, p2h, c1h, p1h)
         IN  (cur # NoCandle /\ prev # NoCandle /\ cur.ema # NoEMA) =>
               /\ SignalKind(sig) = TableSignal(cur, prev, cur.bb, cur.ema)
               /\ BothMatch(cur, prev, cur.bb, cur.ema) => sig.module = "MR"
               /\ sig # NoSig =>
                    sig.htfCandle = cur /\ sig.bb = cur.bb /\ sig.ema = cur.ema
    /\ prog = "live" =>
         \A tf \in {"2H", "1H"} : \A libBB \in Bands, libEMA \in EMAs :
           LET buf == candles[tf]
               sig == detectHTFSignalLive(candles, tf, libBB, libEMA)
           IN  Len(buf) >= minHTF =>
                 /\ SignalKind(sig) = TableSignal(Last(buf), buf[Len(buf) - 1], libBB, libEMA)
                 /\ BothMatch(Last(buf), buf[Len(buf) - 1], libBB, libEMA) =>
                      sig.module = "MR"
                 /\ sig # NoSig =>
                      sig.htfCandle = Last(buf) /\ sig.bb = libBB /\ sig.ema = libEMA

\* C16 witness: the replay has reached a ready HTF bar on which a Mean Reversion row
\* and a Continuation row both match, and the signal returned is Mean Reversion.
C16_Witness ==
    /\ prog = "strict"
    /\ ChosenHTF[1] # NoCandle /\ ChosenHTF[2] # NoCandle /\ ChosenHTF[1].ema # NoEMA
    /\ BothMatch(ChosenHTF[1], ChosenHTF[2], ChosenHTF[1].bb, ChosenHTF[1].ema)
    /\ detectHTFSignal(c2h, p2h, c1h, p1h).module = "MR"

\* the equity of the running script
Equity == IF prog = "strict" THEN account ELSE accountBalance

\* C17: every position opened by tryEnterTrade, in the replay and in the live engine,
\* has a positive risk per unit |entry - stop| and the quantity
\* (equity at entry * risk fraction) / |entry - stop|, in the model's fixed point: the
\* whole quotient of the whole risk per trade.  Equity 10000, entry 100, stop 95 give
\* risk per trade 100, risk per unit 5 and quantity 20.
C17_Quantity ==
    [][ nEnter' = nEnter + 1 =>
          LET p == position'
              riskPerTrade == Equity' \div RISK_PCT_DIV
              riskPerUnit == Abs(p.entry - p.stop)
          IN  /\ riskPerUnit > 0
              /\ p.qty > 0
              /\ p.qty * riskPerUnit <= riskPerTrade
              /\ riskPerTrade < (p.qty + 1) * riskPerUnit
              /\ riskPerTrade * RISK_PCT_DIV <= Equity'
              /\ Equity' < (riskPerTrade + 1) * RISK_PCT_DIV
      ]_vars
    /\ [][ /\ riskPerTradeOf(10000) = 100
           /\ Abs(100 - 95) = 5
           /\ riskPerTradeOf(10000) \div Abs(100 - 95) = 20 ]_vars

\* C17 witness: the replay holds a position that was sized from an equity other than
\* the starting equity, with a risk per unit of more than one tick.
C17_Witness ==
    /\ prog = "strict" /\ pc = "loop" /\ position # NoPos
    /\ account # INITIAL_EQUITY
    /\ Abs(position.entry - position.stop) > 1
    /\ position.qty = (account \div RISK_PCT_DIV) \div Abs(position.entry - position.stop)
    /\ position.qty # (INITIAL_EQUITY \div RISK_PCT_DIV) \div Abs(position.entry - position.stop)

\* a replay step in which tryEnterTrade recorded the signal key and wrote no ENTER
\* line: the attempt got as far as the sizing and was rejected there
SizingRejected ==
    /\ prog = "strict" /\ i' = i + 1
    /\ executedSignals' # executedSignals
    /\ nEnter' = nEnter

\* the state tryEnterTrade was called in: the one managePosition left
AtCall == managePosition(State, c5'.epoch, c5')

\* a live entry attempt with an equity of 0: the quantity is 0
LiveZeroEquity ==
    [candles |-> [tf \in TFNames |->
                    IF tf = "5M" THEN << Candle(LiveStart, PriceLo, PriceMid) >> ELSE <<>>],
     accountBalance |-> 0, tradesThisSession |-> 1, consecutiveLosses |-> 0,
     pausedForSession |-> FALSE, position |-> NoPos, nEnter |-> 1, nExit |-> 1]
LiveLongSignal ==
    [tfName |-> "2H", mode |-> "CONT", module |-> "CONT", bias |-> "LONG",
     bb |-> [upper |-> PriceHi, middle |-> PriceHi, lower |-> PriceHi], ema |-> PriceLo,
     htfCandle |-> Candle(LiveStart, PriceLo, PriceHi)]

\* C18 as stated: a sizing rejection opens no position and leaves account, the trade
\* counter and the trades ledger as they were when tryEnterTrade was called.
C18_RejectionChangesNothing ==
    [][ SizingRejected =>
          /\ position' = NoPos
          /\ account' = AtCall.account
          /\ trades' = AtCall.trades
          /\ dailyTrades' = AtCall.dailyTrades
      ]_vars

\* C18 amended: a sizing rejection opens no position, leaves account and the trades
\* ledger as they were when tryEnterTrade was called, and does not count a trade:
\* dailyTrades is what it was, or 0 when the attempt is the first one of a new UTC
\* date.  The live attempt with a quantity of 0 returns the state it was given.
C18_RejectionCountsNoTrade ==
    [][ SizingRejected =>
          /\ position' = NoPos
          /\ account' = AtCall.account
          /\ trades' = AtCall.trades
          /\ dailyTrades' = IF AtCall.lastTradeDay # getYYYYMMDD(c5'.epoch)
                                THEN 0 ELSE AtCall.dailyTrades
          /\ nExit' = AtCall.nExit
      ]_vars
    /\ [][ tryEnterTradeLive(LiveZeroEquity, LiveLongSignal, "LONG") = LiveZeroEquity ]_vars

\* C18 witness: the replay has rejected an entry whose 5M close equals the stop: the
\* signal key of the last HTF candle is recorded, no trade and no position carries it,
\* and the attempt was the first one of a new UTC date after a day with a trade.
C18_Witness ==
    /\ prog = "strict" /\ pc = "loop" /\ position = NoPos
    /\ c2h # NoCandle /\ c5.close = c2h.high
    /\ <<"2H", c2h.epoch, "SHORT">> \in executedSignals
    /\ \A k \in 1..Len(trades) : trades[k].htfRef.epoch # c2h.epoch
    /\ Len(trades) = 1 /\ dailyTrades = 0
    /\ lastTradeDay = getYYYYMMDD(c5.epoch)
    /\ trades[1].timeEnter[1] # lastTradeDay

\* positions the replay has opened on UTC date d: the closed ones of the ledger and
\* the open one (the force close books the open one without clearing it)
EntriesOn(d) ==
    Cardinality({ k \in 1..Len(trades) : trades[k].timeEnter[1] = d })
    + (IF pc # "done" /\ position # NoPos /\ position.timeEnter[1] = d THEN 1 ELSE 0)

\* the UTC dates of the replay so far
DatesSeen == IF c5 = NoCandle THEN {} ELSE 0..getYYYYMMDD(c5.epoch)

\* C19: in the replay no UTC date has more than MAX_TRADES_PER_DAY positions opened
\* on it; an iteration that calls tryEnterTrade on a date other than lastTradeDay
\* sets lastTradeDay to the date and counts the day's trades from 0, an iteration on
\* the same date adds the entry to dailyTrades and enters nothing once the count has
\* reached the cap, and an iteration that does not call it leaves both as they were.
C19_DailyCap ==
    /\ [](prog = "strict" =>
            /\ \A d \in DatesSeen : EntriesOn(d) <= MAX_TRADES_PER_DAY
            /\ dailyTrades <= MAX_TRADES_PER_DAY
            /\ (lastTradeDay # NoDay /\ pc # "done") => dailyTrades = EntriesOn(lastTradeDay))
    /\ [][ ReplayStep =>
             LET today == getYYYYMMDD(c5'.epoch)
                 entered == nEnter' - nEnter
             IN  IF AtCall.position # NoPos
                     THEN dailyTrades' = dailyTrades /\ lastTradeDay' = lastTradeDay
                          /\ entered = 0
                 ELSE /\ lastTradeDay' = today
                      /\ dailyTrades' = (IF lastTradeDay # today THEN 0 ELSE dailyTrades)
                                        + entered
                      /\ (lastTradeDay = today /\ dailyTrades >= MAX_TRADES_PER_DAY)
                            => entered = 0
       ]_vars

\* C19 witness: three positions have been opened, one on the first date and two on
\* the next one: the counter was reset at the change of date and stands at the cap.
C19_Witness ==
    /\ prog = "strict" /\ pc = "loop" /\ nEnter = 3
    /\ dailyTrades = MAX_TRADES_PER_DAY
    /\ EntriesOn(lastTradeDay) = MAX_TRADES_PER_DAY
    /\ EntriesOn(lastTradeDay - 1) = 1

\* trade b of the ledger was entered while the trade a, recorded before it, was open:
\* on a candle after a's entry candle and before the candle a was exited on
Overlaps(a, b) ==
    a.result # "NoExit" /\ a.entryBar < b.entryBar /\ b.entryBar < a.exitBar

\* C20: in the 15M backtester no trade of the ledger is entered on a candle that lies
\* between the entry candle and the exit candle of a trade recorded before it.
C20_NoOverlap ==
    \A j, k \in 1..Len(tradesLTF) : j < k => ~Overlaps(tradesLTF[j], tradesLTF[k])

\* a step of detectBOSFromSwings that pushed an event
EmitStep == prog \in StructProgs /\ spc = "bos" /\ si' = si + 1 /\ events' # events

\* C21 as stated: an upward break emits BOS_UP when the carried trend was bearish or
\* unknown and CHoCH_UP when it was bullish, and sets the trend to bullish (mirror
\* image for a downward break).
C21_LabelsAsStated ==
    [][ EmitStep =>
          LET t == Last(events').type
          IN  IF At(swings, si).type = "H"
                  THEN /\ currentTrend \in {"bearish", NoTrend} => t = "BOS_UP"
                       /\ currentTrend = "bullish" => t = "CHoCH_UP"
                       /\ currentTrend' = "bullish"
                  ELSE /\ currentTrend \in {"bullish", NoTrend} => t = "BOS_DOWN"
                       /\ currentTrend = "bearish" => t = "CHoCH_DOWN"
                       /\ currentTrend' = "bearish"
      ]_vars

\* C21 (amended): an upward break emits CHoCH_UP when the carried trend was bearish
\* and BOS_UP when it was bullish or unknown, and sets the trend to bullish; a downward
\* break emits CHoCH_DOWN when the carried trend was bullish and BOS_DOWN when it was
\* bearish or unknown, and sets the trend to bearish.
C21_LabelsAsCoded ==
    [][ EmitStep =>
          LET t == Last(events').type
          IN  IF At(swings, si).type = "H"
                  THEN /\ currentTrend = "bearish" => t = "CHoCH_UP"
                       /\ currentTrend \in {"bullish", NoTrend} => t = "BOS_UP"
                       /\ currentTrend' = "bullish"
                  ELSE /\ currentTrend = "bullish" => t = "CHoCH_DOWN"
                       /\ currentTrend \in {"bearish", NoTrend} => t = "BOS_DOWN"
                       /\ currentTrend' = "bearish"
      ]_vars

\* C21 witness: after a downward event made the trend bearish, an upward break was
\* labelled CHoCH_UP and the trend is bullish.
C21_Witness ==
    /\ prog \in StructProgs /\ spc = "bos" /\ Len(events) >= 2
    /\ events[Len(events) - 1].type \in {"BOS_DOWN", "CHoCH_DOWN"}
    /\ Last(events).type = "CHoCH_UP"
    /\ currentTrend = "bullish"
    /\ si > 0 /\ swings[si].type = "H"

\* C22: every bar listed as a High pivot has a high strictly greater than the high of
\* every other bar of its window [index - SWING_SIZE, index + SWING_SIZE], and every
\* bar listed as a Low pivot a low strictly smaller than every other low of its window.
C22_StrictlyExtreme ==
    (prog \in StructProgs /\ spc # "load") =>
        \A j \in 1..Len(swings) :
            LET idx == swings[j].index
            IN  \A k \in (idx - SWING_SIZE)..(idx + SWING_SIZE) :
                    k # idx =>
                        IF swings[j].type = "H"
                            THEN At(rows, k).high < At(rows, idx).high
                            ELSE At(rows, k).low > At(rows, idx).low

\* C23: in both scripts the pivot stream is in non-decreasing order of bar index, and
\* of two pivots of the same index the High comes first; the classifier goes through
\* the stream in that order, so when it is at the Low of such a pair it has already
\* seen the High of the pair, and when it is at the High it has not yet seen the Low.
C23_StreamOrder ==
    (prog \in StructProgs /\ spc # "load") =>
        /\ \A j, k \in 1..Len(swings) :
             j < k =>
                /\ swings[j].index <= swings[k].index
                /\ swings[j].index = swings[k].index =>
                      swings[j].type = "H" /\ swings[k].type = "L"
        /\ (spc = "bos" /\ si < Len(swings)) =>
             LET s == At(swings, si)
                 twin == { k \in 1..Len(swings) :
                             swings[k].index = s.index /\ swings[k].type # s.type }
             IN  \A k \in twin :
                    IF s.type = "L" THEN lastHighSeen = swings[k]
                    ELSE lastLowSeen # swings[k]

\* C23 witness: the script that sorts the stream has gone through a stream of several
\* bar indexes that holds a High and a Low pivot of the same bar, the High first.
C23_Witness ==
    /\ prog = "bos" /\ spc = "done" /\ Len(swings) >= 3
    /\ \E j \in 1..(Len(swings) - 1) :
         /\ swings[j].index = swings[j + 1].index
         /\ swings[j].type = "H" /\ swings[j + 1].type = "L"
    /\ swings[1].index < Last(swings).index

\* the latest pivot of a type among the pivots gone through so far, if any
SeenSoFar(type) ==
    IF \E j \in 0..(si - 1) : At(swings, j).type = type
        THEN LatestBefore(swings, si, type) ELSE NoSwing

\* The pivots H@105, H@100, L@90, H@102: the second High is below the first and makes
\* no event, the third is above the second and below the first.
LowerHigh_Rows ==
    << Row(0, 95, 95), Row(1, 105, 105), Row(2, 95, 95), Row(3, 100, 100),
       Row(4, 90, 90), Row(5, 102, 102), Row(6, 95, 95) >>
LowerHigh_Swings ==
    << [type |-> "H", index |-> 1, price |-> 105, time |-> 1],
       [type |-> "H", index |-> 3, price |-> 100, time |-> 3],
       [type |-> "L", index |-> 4, price |-> 90, time |-> 4],
       [type |-> "H", index |-> 5, price |-> 102, time |-> 5] >>
RECURSIVE bosRun(_, _, _, _)
bosRun(st, sw, idx, cs) ==
    IF idx >= Len(sw) THEN st ELSE bosRun(bosStep(st, sw, idx, cs), sw, idx + 1, cs)
LowerHigh_Result ==
    bosRun([lastHighSeen |-> NoSwing, lastLowSeen |-> NoSwing,
            currentTrend |-> NoTrend, events |-> <<>>],
           LowerHigh_Swings, 0, LowerHigh_Rows)

\* C24: in both scripts, a step of the classifier on a High pivot leaves lastHighSeen
\* equal to that pivot and lastLowSeen untouched, whether or not it pushed an event
\* (mirror image on a Low pivot); so at every point lastHighSeen is the latest High of
\* the pivots gone through, an event of the price-break script on a High means that
\* the pivot is above the High pivot right before it in the stream, and after a lower
\* High the next High is measured against the lower one: the pivots H@105, H@100,
\* L@90, H@102 give one BOS_UP, on the High at 102.
C24_LastSeenAlwaysMoves ==
    /\ [][ (prog \in StructProgs /\ spc = "bos" /\ si' = si + 1) =>
             LET s == At(swings, si)
             IN  /\ s.type = "H" => lastHighSeen' = s /\ lastLowSeen' = lastLowSeen
                 /\ s.type = "L" => lastLowSeen' = s /\ lastHighSeen' = lastHighSeen
                 /\ (prog = "bos" /\ events' # events /\ s.type = "H") =>
                        s.price > SeenSoFar("H").price
                 /\ (prog = "bos" /\ events' # events /\ s.type = "L") =>
                        s.price < SeenSoFar("L").price
         ]_vars
    /\ [] ( /\ (prog \in StructProgs /\ spc = "bos") =>
                 lastHighSeen = SeenSoFar("H") /\ lastLowSeen = SeenSoFar("L")
            /\ Len(LowerHigh_Result.events) = 1
            /\ LowerHigh_Result.events[1].type = "BOS_UP"
            /\ LowerHigh_Result.events[1].endPrice = 102
            /\ LowerHigh_Result.lastHighSeen.price = 102 )

\* C24 witness: the classifier has just gone through a High pivot below the High
\* pivot before it: no event was pushed, and lastHighSeen is the lower pivot.
C24_Witness ==
    /\ prog \in StructProgs /\ spc = "bos" /\ si >= 2 /\ events = <<>>
    /\ swings[si].type = "H"
    /\ \E j \in 1..(si - 1) :
         /\ swings[j].type = "H" /\ swings[j].price > swings[si].price
         /\ \A k \in (j + 1)..(si - 1) : swings[k].type = "L"
    /\ lastHighSeen = swings[si]

\* the bars of the leg from pivot `from` to pivot `to` whose close moved in the
\* direction `up` against the close of the bar before
LegCloses(from, to, up) ==
    Cardinality({ k \in (from.index + 1)..to.index :
                    IF up THEN At(rows, k).close > At(rows, k - 1).close
                    ELSE At(rows, k).close < At(rows, k - 1).close })

\* the pivot swings[si] is a candidate break: beyond the last pivot of its type, with
\* a pivot of the other type before it
Candidate ==
    LET s == At(swings, si)
    IN  IF s.type = "H"
            THEN /\ SeenSoFar("H") # NoSwing /\ s.price > SeenSoFar("H").price
                 /\ SeenSoFar("L") # NoSwing
            ELSE /\ SeenSoFar("L") # NoSwing /\ s.price < SeenSoFar("L").price
                 /\ SeenSoFar("H") # NoSwing

\* C25: in the price-break script a step on a candidate break pushes an event iff
\* the bars of the leg whose close moved in the direction of the break number at least
\* MIN_IMPULSE_CANDLES or the leg (the pivot's price against the price of the latest
\* opposite pivot) is at least MIN_LEG_PTS; a step on a pivot that is no candidate, or
\* whose leg passes neither test, pushes no event and keeps the trend.
C25_ImpulseFilter ==
    [][ (prog = "bos" /\ spc = "bos" /\ si' = si + 1) =>
          LET s == At(swings, si)
              up == s.type = "H"
              from == IF up THEN SeenSoFar("L") ELSE SeenSoFar("H")
              leg == IF up THEN s.price - from.price ELSE from.price - s.price
              passes == \/ LegCloses(from, s, up) >= MIN_IMPULSE_CANDLES
                        \/ leg >= MIN_LEG_PTS
          IN  /\ events' # events <=> (Candidate /\ passes)
              /\ events' # events =>
                    /\ Len(events') = Len(events) + 1
                    /\ Last(events').dirCandles = LegCloses(from, s, up)
                    /\ Last(events').legPts = leg
              /\ events' = events => currentTrend' = currentTrend
      ]_vars

\* C25 witness: the script has just gone through a High pivot above the last High
\* with a Low pivot before it, whose leg is negative and has fewer than
\* MIN_IMPULSE_CANDLES rising closes: no event was pushed for it.
C25_Witness ==
    /\ prog = "bos" /\ spc = "bos" /\ si >= 3
    /\ swings[si].type = "H"
    /\ \E j \in 1..(si - 1) :
         /\ swings[j].type = "H" /\ swings[j].price < swings[si].price
         /\ \A k \in (j + 1)..(si - 1) : swings[k].type = "L"
    /\ \E j \in 1..(si - 1) :
         /\ swings[j].type = "L"
         /\ \A k \in (j + 1)..(si - 1) : swings[k].type = "H"
         /\ swings[si].price - swings[j].price < MIN_LEG_PTS
         /\ LegCloses(swings[j], swings[si], TRUE) < MIN_IMPULSE_CANDLES
    /\ \A k \in 1..Len(events) : events[k].time # swings[si].time

\* the UTC date of the latest 5M candle of the feed, in state s
FeedDate(s) == getYYYYMMDD(Last(s.candles["5M"]).epoch)

\* C26: in the live engine, when the UTC date of the feed changes the per-session
\* counter starts again from zero: after a step that brings the first 5M candle of a
\* new date, tradesThisSession counts no entry made before that step.
C26_CounterResetOnNewDate ==
    [][ ( /\ prog = "live" /\ candles["5M"] # <<>>
          /\ FeedDate(LiveState') # FeedDate(LiveState) ) =>
            tradesThisSession' <= nEnter' - nEnter
      ]_vars

\* candle f trades at the price level x
Touches(f, x) == f.low <= x /\ x <= f.high

\* C27: in the 15M backtester a trade whose exit candle touches both its stop and its
\* target is recorded as a loss, never as a win.
C27_StopBeforeTarget ==
    \A k \in 1..Len(tradesLTF) :
        LET t == tradesLTF[k]
            f == At(candlesLTF, t.exitBar)
        IN  (t.result # "NoExit" /\ Touches(f, t.sl) /\ Touches(f, t.tp)) =>
                t.result = "loss"

\* C28: for every array in non-decreasing order of epoch and every epoch asked for,
\* findLatestAtOrBefore returns the candle of the greatest index whose epoch is at
\* most the epoch asked for, and null iff there is no such candle (every candle is
\* later, or the array is empty).
C28_LatestAtOrBefore ==
    (prog = "find" /\ fpc = "done") =>
        LET hits == { k \in 0..(Len(fArr) - 1) : At(fArr, k).epoch <= fEpoch }
        IN  /\ hits # {} =>
                 /\ fAns # NoCandle
                 /\ fAns = At(fArr, CHOOSE k \in hits : \A j \in hits : j <= k)
            /\ fAns = NoCandle <=> hits = {}
            /\ fAns = NoCandle <=>
                 (fArr = <<>> \/ \A k \in 1..Len(fArr) : fArr[k].epoch > fEpoch)

\* C28 witness: the lookup returned the last of several candles of the epoch asked
\* for, with an earlier candle before them and a later candle after them.
C28_Witness ==
    /\ prog = "find" /\ fpc = "done" /\ Len(fArr) = MaxFind
    /\ fAns # NoCandle /\ fAns.epoch = fEpoch
    /\ fAns.row >= 2 /\ fAns.row < Len(fArr) - 1
    /\ At(fArr, fAns.row - 1).epoch = fEpoch
    /\ fArr[1].epoch < fEpoch
    /\ Last(fArr).epoch > fEpoch

\* an ohlc message of the 5M subscription was handled: one that opened a new candle,
\* or one that updated the candle in progress
NewBar5M == OhlcStep("5M") /\ nNew' = nNew + 1
Update5M == OhlcStep("5M") /\ nNew' = nNew /\ ws' = ws /\ candles' # candles

\* C29: in the live engine an open position is checked once for each completed 5M
\* bar, when the next bar is appended, against the final close of the completed bar
\* (the candle before the appended one): it is closed in that step iff that close is
\* beyond its stop or its target; an update of the bar in progress closes nothing and
\* leaves an open position as it is.
C29_CheckedAtCompletedClose ==
    [][ /\ (NewBar5M /\ position # NoPos) =>
              /\ nExit' - nExit \in {0, 1}
              /\ nExit' = nExit + 1 <=>
                    exitOn5mClose(position, Last(candles["5M"]).close) # NoExit
        /\ (Update5M /\ position # NoPos) => nExit' = nExit /\ position' = position
      ]_vars

\* candle c pierced the band with its wick and closed back inside it, and the next
\* candle closed in the reversing direction
SnapBack(c, nextC, bb) ==
    \/ c.high > bb.upper /\ c.close < bb.upper /\ nextC.close < c.close
    \/ c.low < bb.lower /\ c.close > bb.lower /\ nextC.close > c.close

\* C30: in the 15M backtester, on a candle inside a session whose cap is not reached,
\* with an ATR that is at or below its ten-bar mean (so that no Continuation trade is
\* selected), a wick that pierces a band with the close back inside it and a next
\* candle that closes in the reversing direction, the iteration records a
\* MeanReversion trade whose target is the middle band.
C30_SnapBackOpens ==
    (prog = "ltf" /\ lpc = "loop" /\ iLTF < Len(candlesLTF) - 1) =>
        \A atr \in ATRs \ {0}, bb \in BandsLTF :
            LET c == At(candlesLTF, iLTF)
                nextC == At(candlesLTF, iLTF + 1)
                st == ltfStep(LTFState, candlesLTF, iLTF, atr, bb, FALSE)
                counted == { k \in 1..Len(tradesLTF) :
                               /\ tradesLTF[k].date = getYYYYMMDD(c.epoch)
                               /\ tradesLTF[k].session = getSession(c.epoch) }
            IN  ( /\ getSession(c.epoch) # NoSession
                  /\ Cardinality(counted) < MAX_TRADES_PER_SESSION
                  /\ SnapBack(c, nextC, bb) ) =>
                    /\ Len(st.trades) = Len(tradesLTF) + 1
                    /\ Last(st.trades).type = "MeanReversion"
                    /\ Last(st.trades).tp = bb.middle

\* ------------------------------------------------------------- sides of stop and target
\* The stop of position p on the losing side and its target on the winning side of
\* the entry price.
SidesInOrder(p) ==
    IF p.side = "LONG" THEN p.stop < p.entry /\ p.entry < p.target
                       ELSE p.target < p.entry /\ p.entry < p.stop

\* C31: every position opened by tryEnterTrade, in the replay and in the live engine,
\* has stop < entry < target when LONG and target < entry < stop when SHORT, and in
\* the replay's ledger no STOP exit has a positive pnl and no TARGET exit a negative
\* one.
C31_StopAndTargetOnTheirSides ==
    /\ position # NoPos => SidesInOrder(position)
    /\ \A k \in 1..Len(trades) :
          /\ trades[k].reason = "STOP" => trades[k].pnl <= 0
          /\ trades[k].reason = "TARGET" => trades[k].pnl >= 0

\* ------------------------------------------------------------- one entry per signal
\* The signal key of an opened position: timeframe name, HTF candle epoch, bias.
KeyOf(p) == <<p.htfRef.tf, p.htfRef.epoch, p.side>>

\* The signal the replay detects on the bar it has just processed.
SigNow == detectHTFSignal(c2h, p2h, c1h, p1h)

\* C32: in the replay every signal key opens at most one position: the keys of the
\* closed trades and of the open position are pairwise different and all recorded in
\* executedSignals (after the force close the position variable still holds the
\* trade the ledger has just received, which is one position); a step that opens a position does so for a key that was not in
\* executedSignals before it, and executedSignals never loses a key (so a key consumed
\* by an attempt that sizing rejected opens nothing later either).
C32_OneEntryPerSignal ==
    /\ [](prog = "strict" =>
            /\ \A a, b \in 1..Len(trades) :
                  a # b => KeyOf(trades[a]) # KeyOf(trades[b])
            /\ \A a \in 1..Len(trades) : KeyOf(trades[a]) \in executedSignals
            /\ position # NoPos => KeyOf(position) \in executedSignals
            /\ position # NoPos /\ pc # "done" =>
                  \A a \in 1..Len(trades) : KeyOf(trades[a]) # KeyOf(position))
    /\ [][prog = "strict" =>
            /\ executedSignals \subseteq executedSignals'
            /\ nEnter' = nEnter + 1 => KeyOf(position') \notin executedSignals]_vars

\* A later bar meets a signal whose key an attempt rejected by sizing has consumed:
\* the bar is aligned with the signal and could be sized, nothing blocks an entry, no
\* position was ever opened, and none is open.
C32_Witness ==
    /\ prog = "strict" /\ pc = "loop" /\ i >= 2
    /\ nEnter = 0 /\ position = NoPos
    /\ ~riskBlocked(State)
    /\ SigNow # NoSig
    /\ <<SigNow.tfName, SigNow.htfCandle.epoch, SigNow.bias>> \in executedSignals
    /\ IF SigNow.bias = "LONG"
           THEN c5.close > c5.open /\ c5.close # SigNow.htfCandle.low
           ELSE c5.close < c5.open /\ c5.close # SigNow.htfCandle.high

\* ------------------------------------------------------------- the loss streak in both scripts
\* The streak after a closed trade of the given pnl, as the claim counts it.
StreakAfter(streak, pnl) == IF pnl < 0 THEN streak + 1 ELSE 0

\* C33: after every exit made by managePosition (replay) and by
\* managePositionOn5mClose (live engine) the consecutive-loss count is the count
\* before the exit plus one when the trade's pnl is negative and zero otherwise, so
\* for the same pnls both scripts hold the same count (the number of trailing trades
\* with pnl < 0); the trade's pnl is what the exit adds to the balance.
C33_SameLossCount ==
    [][/\ (prog = "strict" /\ pc = "loop" /\ nExit' = nExit + 1) =>
             consecLosses' = StreakAfter(consecLosses, account' - account)
       /\ (prog = "live" /\ nExit' = nExit + 1) =>
             consecutiveLosses' =
                 StreakAfter(consecutiveLosses, accountBalance' - accountBalance)]_vars

\* ------------------------------------------------------------- the sign of the leg
\* C34: every structure event of the price-break classifier has legPts >= 0: the new
\* High of an *_UP event is at or above the preceding Low pivot (endPrice >=
\* startPrice) and the new Low of a *_DOWN event at or below the preceding High pivot
\* (endPrice <= startPrice).
C34_LegNonNegative ==
    prog = "bos" =>
        \A k \in 1..Len(events) :
            /\ events[k].legPts >= 0
            /\ events[k].type \in {"BOS_UP", "CHoCH_UP"} =>
                   events[k].endPrice >= events[k].startPrice
            /\ events[k].type \in {"BOS_DOWN", "CHoCH_DOWN"} =>
                   events[k].endPrice <= events[k].startPrice

\* ------------------------------------------------------------- chunked candle downloader
\* fetch_and_save.js downloads the candles of five timeframes, one after the other;
\* the 5M downloader is the same program with one timeframe and its own dates.
START_EPOCH == 1735689600      \* new Date("2025-01-01T00:00:00Z").getTime() / 1000
END_EPOCH == 1756684800        \* new Date("2025-09-01T00:00:00Z").getTime() / 1000
START_EPOCH_5M == 1704067200
END_EPOCH_5M == 1735689599
CHUNK_DAYS == 30
RETRY_MS == 2000
NEXT_MS == 1000

TIMEFRAMES ==
    << [label |-> "5m", seconds |-> 300], [label |-> "15m", seconds |-> 900],
       [label |-> "1h", seconds |-> 3600], [label |-> "2h", seconds |-> 7200],
       [label |-> "4h", seconds |-> 14400] >>

TIMEFRAME == [label |-> "5m", seconds |-> 300]

FetchProgs == {"fetch", "fetch5m"}

\* The timeframe list and the dates of the script p.
TimeframesOf(p) == IF p = "fetch5m" THEN <<TIMEFRAME>> ELSE TIMEFRAMES
StartOf(p) == IF p = "fetch5m" THEN START_EPOCH_5M ELSE START_EPOCH
EndOf(p) == IF p = "fetch5m" THEN END_EPOCH_5M ELSE END_EPOCH
LabelsOf(p) == { TimeframesOf(p)[k].label : k \in 1..Len(TimeframesOf(p)) }

\* The state of the downloader, as one value.
FetchState ==
    [sock |-> sock, currentTFIndex |-> currentTFIndex, dl |-> dl, call |-> call,
     delay |-> delay, request |-> request, files |-> files]

\* const currentEnd = Math.min(currentStart + CHUNK_DAYS * 24 * 60 * 60, END_EPOCH);
currentEndOf(currentStart, end) == Min(currentStart + CHUNK_DAYS * DAY_SECONDS, end)

\* A next chunk that starts where the saved chunk started.
nextStartSameChunk(currentEnd, seconds) == currentEnd - CHUNK_DAYS * DAY_SECONDS

\* The start of the chunk after a saved one: currentEnd + tf.seconds
nextStart(currentEnd, seconds) == currentEnd + seconds

\* fetchNextChunk(tf, currentStart, chunkCount) of the script p: past the end date the
\* timeframe is finished and the next one is started from START_EPOCH, or the socket
\* is closed after the last; otherwise the request is sent and a once-listener waits
\* for the answer.
RECURSIVE fetchNextChunk(_, _, _, _, _)
fetchNextChunk(d, p, tf, currentStart, chunkCount) ==
    IF currentStart >= EndOf(p)
        THEN LET d1 == [d EXCEPT !.currentTFIndex = @ + 1]
             IN  IF d1.currentTFIndex < Len(TimeframesOf(p))
                     THEN fetchNextChunk(d1, p, At(TimeframesOf(p), d1.currentTFIndex),
                                         StartOf(p), 1)
                     ELSE [d1 EXCEPT !.sock = "closed", !.dl = "closed", !.delay = 0]
        ELSE [d EXCEPT
                !.request = [start |-> currentStart,
                             end |-> currentEndOf(currentStart, EndOf(p)),
                             granularity |-> tf.seconds],
                !.call = [tf |-> tf, currentStart |-> currentStart,
                          chunkCount |-> chunkCount],
                !.dl = "listening",
                !.delay = 0]

\* The ws.once("message") callback on the parsed message `data`.
onMessage(d, p, data) ==
    LET tf == d.call.tf
        currentEnd == currentEndOf(d.call.currentStart, EndOf(p))
        retry == [d EXCEPT !.dl = "timer", !.delay = RETRY_MS]
    IN  IF data.error THEN retry
        ELSE IF Len(data.candles) = 0 THEN retry
        ELSE [d EXCEPT
                !.files[tf.label] = @ \o data.candles,
                !.call = [tf |-> tf, currentStart |-> nextStart(currentEnd, tf.seconds),
                          chunkCount |-> d.call.chunkCount + 1],
                !.dl = "timer",
                !.delay = NEXT_MS]

\* The messages the server may answer a request with: an error, no candles, or the
\* rows of the range asked for (here its first and its last candle).
Responses(req) ==
    { [error |-> TRUE, candles |-> <<>>],
      [error |-> FALSE, candles |-> <<>>],
      [error |-> FALSE,
       candles |-> << [epoch |-> req.start],
                      [epoch |-> req.end - (req.end % req.granularity)] >>] }

StoreFetch(d) ==
    /\ sock' = d.sock
    /\ currentTFIndex' = d.currentTFIndex
    /\ dl' = d.dl
    /\ call' = d.call
    /\ delay' = d.delay
    /\ request' = d.request
    /\ files' = d.files

\* The CSV headers are written and the socket is being opened.
FetchInit ==
    /\ prog \in FetchProgs
    /\ StrictIdle /\ LiveIdle /\ StructIdle /\ LTFIdle /\ FindIdle
    /\ position = NoPos /\ nEnter = 0 /\ nExit = 0
    /\ sock = "connecting"
    /\ currentTFIndex = 0
    /\ dl = "connecting"
    /\ call = NoCall
    /\ delay = 0
    /\ request = NoRequest
    /\ files = [l \in LabelsOf(prog) |-> <<>>]

\* ws.on("open"): fetchNextChunk(TIMEFRAMES[currentTFIndex], START_EPOCH, 1)
OnOpenFetch ==
    /\ prog \in FetchProgs /\ sock = "connecting"
    /\ \E d \in {fetchNextChunk([FetchState EXCEPT !.sock = "open"], prog,
                                At(TimeframesOf(prog), currentTFIndex),
                                StartOf(prog), 1)} : StoreFetch(d)
    /\ UNCHANGED <<prog, position, nEnter, nExit, strictVars, liveVars, structVars,
                   ltfVars, findVars>>

\* The pending setTimeout fires and calls fetchNextChunk with the arguments it holds.
TimerFires ==
    /\ prog \in FetchProgs /\ dl = "timer"
    /\ \E d \in {fetchNextChunk(FetchState, prog, call.tf, call.currentStart,
                                call.chunkCount)} : StoreFetch(d)
    /\ UNCHANGED <<prog, position, nEnter, nExit, strictVars, liveVars, structVars,
                   ltfVars, findVars>>

\* The answer to the request arrives.
OnMessageFetch ==
    /\ prog \in FetchProgs /\ dl = "listening"
    /\ \E data \in Responses(request) :
         \E d \in {onMessage(FetchState, prog, data)} : StoreFetch(d)
    /\ UNCHANGED <<prog, position, nEnter, nExit, strictVars, liveVars, structVars,
                   ltfVars, findVars>>

FetchNext == OnOpenFetch \/ TimerFires \/ OnMessageFetch

SpecFetch == FetchInit /\ [][FetchNext]_vars

\* The event loop runs every callback that is due, and every request is in the end
\* answered with candles: an answer that saves a chunk is not refused forever.
SpecFetchFair ==
    /\ SpecFetch
    /\ WF_vars(OnOpenFetch)
    /\ WF_vars(TimerFires)
    /\ SF_vars(OnMessageFetch /\ files' # files)

\* The file of timeframe tf holds the candles up to the end date.
FileComplete(tf) ==
    /\ files[tf.label] # <<>>
    /\ Last(files[tf.label]).epoch > EndOf(prog) - tf.seconds

\* Every timeframe is downloaded and the socket is closed.
AllDownloaded ==
    /\ sock = "closed" /\ dl = "closed"
    /\ currentTFIndex = Len(TimeframesOf(prog))
    /\ \A k \in 1..Len(TimeframesOf(prog)) : FileComplete(TimeframesOf(prog)[k])

\* What a step of the downloader may do to the chunk start, the files, the request
\* and the timeframe index.
ChunkStep ==
    /\ (call # NoCall /\ call'.tf = call.tf) =>
           call'.currentStart >= call.currentStart
    /\ files' # files =>
           /\ dl = "listening" /\ call'.tf = call.tf
           /\ call'.currentStart > call.currentStart
           /\ \A l \in LabelsOf(prog) :
                IF l = call.tf.label
                    THEN /\ Len(files'[l]) > Len(files[l])
                         /\ SubSeq(files'[l], 1, Len(files[l])) = files[l]
                    ELSE files'[l] = files[l]
    /\ (dl = "listening" /\ files' = files) =>
           (call' = call /\ dl' = "timer" /\ delay' = RETRY_MS)
    /\ (dl = "timer" /\ delay = RETRY_MS) =>
           (request' = request /\ call' = call /\ dl' = "listening")
    /\ currentTFIndex' \in {currentTFIndex, currentTFIndex + 1}
    /\ (currentTFIndex' = currentTFIndex + 1) =>
           FileComplete(At(TimeframesOf(prog), currentTFIndex))

\* C35: in the downloader the chunk start of a timeframe never decreases; a step that
\* writes to a file appends to the file of the current timeframe only and moves the
\* chunk start strictly forward; an error or an empty answer writes nothing, keeps
\* the arguments of the call, and the retry sends the same request again; the
\* timeframes are taken in list order, each started only when the file of the one
\* before it is complete; and under fairness every timeframe is in the end
\* downloaded and the socket closed.
C35_ChunksAdvanceAndFinish ==
    /\ [][(prog \in FetchProgs) => ChunkStep]_vars
    /\ <>AllDownloaded

\* The five-timeframe download has finished: every file is complete, the 4h file
\* last, and the socket is closed.
C35_Witness ==
    /\ prog = "fetch" /\ AllDownloaded
    /\ Len(files["4h"]) > 2

====
